---- MODULE Spec2Model ----
(***************************************************************************)
(* The transactional world-state engine of world-explorer-fresh:           *)
(*   src/lib/game/state/transaction.ts  cloneWorld, createSnapshot,        *)
(*                                      TransactionManager, applyChange    *)
(*   src/lib/game/engine.ts             ActionEngine                       *)
(*                                                                         *)
(* World objects live in a heap of references, so that "the same object",  *)
(* "a distinct object" and "mutated in place" mean what they mean in the   *)
(* JavaScript source.  A World's content (its entities and their fields)   *)
(* is a value; the payload of a change (newValue) is a value too: every    *)
(* caller in the repository passes fresh literals or fresh arrays.         *)
(* Strings are the source's strings.  Entity.description (flavour text     *)
(* that no operation reads) and WorldSnapshot.timestamp (Date.now()) are   *)
(* left out.                                                               *)
(***************************************************************************)
EXTENDS Integers, Sequences, FiniteSets, TLC

VARIABLES
  heap,         \* reference -> World content, or NoObj for a free cell
  transaction,  \* TransactionManager.transaction (NoTransaction is null)
  world,        \* ActionEngine.world: a reference (0: no engine built)
  entityMap,    \* ActionEngine.entityMap: id -> entity
  cw,           \* the world object a direct caller of the manager works on
  orig,         \* the caller's first world: [ref, copy taken when it was made]
  last,         \* the last call: its input, what it returned or threw
  tmCalls,      \* the manager calls the last operation made: [op, ok]
  kept,      \* what the caller keeps to compare later results with: its copy
             \* of the world it last started a transaction on, or the action
             \* lists generateValidActions returned to it
  session,   \* the SessionData the session manager stores (NoSession: none)
  running    \* the GameService calls in flight, one per client at most:
             \* where each is and what it holds in its local variables

vars ==
  <<heap, transaction, world, entityMap, cw, orig, last, tmCalls, kept,
    session, running>>

\* no session is stored and no GameService call is in flight
NoSession == [exists |-> FALSE]
NoService == session = NoSession /\ running = <<>>

----------------------------------------------------------------------------
(* Bounds of the model *)

\* the longest change list a direct caller of the manager records
MaxChanges == 3

\* heap cells: the caller's first world, the working world, the snapshot,
\* the last returned world and the clones one call makes
Refs == 1 .. 7
\* the turn numbers callers pass
Turns == {1, 2}

----------------------------------------------------------------------------
(* Values *)

NoObj == [freed |-> TRUE]
NoTransaction == [exists |-> FALSE]
\* JavaScript null as a change payload
Null == [null |-> TRUE]
\* The payloads of a change (oldValue, newValue: unknown) carry their
\* JavaScript type; Raw is the value itself, as applyChange stores it
Num(n) == [num |-> n]
Str(x) == [str |-> x]
List(q) == [list |-> q]
Obj(o) == [obj |-> o]
Raw(v) ==
  IF "num" \in DOMAIN v THEN v.num
  ELSE IF "str" \in DOMAIN v THEN v.str
  ELSE IF "list" \in DOMAIN v THEN v.list
  ELSE IF "obj" \in DOMAIN v THEN v.obj
  ELSE v
\* JavaScript truthiness of a payload
Truthy(v) == v # Null /\ v # Num(0) /\ v # Str("")

\* no error / no thrown exception
NoError == ""

Max(a, b) == IF a >= b THEN a ELSE b
Min(a, b) == IF a <= b THEN a ELSE b
Abs(n) == IF n < 0 THEN 0 - n ELSE n

\* obj[k] = v on a JavaScript object: the key is created when missing
Put(obj, k, v) == [f \in (DOMAIN obj) \cup {k} |-> IF f = k THEN v ELSE obj[f]]

Includes(seq, x) == \E i \in 1 .. Len(seq) : seq[i] = x

\* Array.prototype.filter(id => id !== x)
RECURSIVE Without(_, _)
Without(seq, x) ==
  IF seq = <<>> THEN <<>>
  ELSE IF Head(seq) = x THEN Without(Tail(seq), x)
       ELSE <<Head(seq)>> \o Without(Tail(seq), x)

\* Array.prototype.findIndex(e => e.id === id), 1-based; 0 for -1
FindIndex(entities, id) ==
  IF \E i \in 1 .. Len(entities) : entities[i].id = id
  THEN CHOOSE i \in 1 .. Len(entities) :
         /\ entities[i].id = id
         /\ \A j \in 1 .. (i - 1) : entities[j].id # id
  ELSE 0

\* Array.prototype.splice(index, 1)
Splice(seq, i) == SubSeq(seq, 1, i - 1) \o SubSeq(seq, i + 1, Len(seq))

----------------------------------------------------------------------------
(* Entities and worlds (types.ts) *)

NoReq == [requires_item |-> "", requires_health |-> 0]

Place(id, name, connections) ==
  [id |-> id, name |-> name, type |-> "place", connections |-> connections]

Person(id, name, location, health, energy, inventory) ==
  [id |-> id, name |-> name, type |-> "person", location |-> location,
   health |-> health, energy |-> energy, inventory |-> inventory]

Item(id, name, location, usable, consumable, effects) ==
  [id |-> id, name |-> name, type |-> "item", location |-> location,
   usable |-> usable, consumable |-> consumable, effects |-> effects]

MkWorld(entities) ==
  [world_name |-> "Test World", world_description |-> "A test world",
   starting_location |-> "tavern", entities |-> entities]

----------------------------------------------------------------------------
(* The heap of World objects *)

EmptyHeap == [r \in Refs |-> NoObj]

\* the cell a new object gets: the lowest free one
Alloc(h) ==
  CHOOSE r \in Refs : h[r] = NoObj /\ \A q \in Refs : q < r => h[q] # NoObj

\* the entities array as JSON.parse rebuilds it, entity by entity
RECURSIVE CopyEntities(_)
CopyEntities(entities) ==
  IF entities = <<>> THEN <<>>
  ELSE <<[f \in DOMAIN Head(entities) |-> Head(entities)[f]]>>
         \o CopyEntities(Tail(entities))

\* JSON.parse(JSON.stringify(world)): the content is rebuilt field by field
\* (every value of the model is JSON data, which the round trip preserves)
JsonRoundTrip(w) ==
  [world_name |-> w.world_name,
   world_description |-> w.world_description,
   starting_location |-> w.starting_location,
   entities |-> CopyEntities(w.entities)]

\* (faulty variant) cloneWorld that hands back the object it was given
CloneWorldSameObject(h, r) == [heap |-> h, ref |-> r]

\* cloneWorld: a new object holding a deep copy
CloneWorld(h, r) ==
  LET n == Alloc(h) IN [heap |-> [h EXCEPT ![n] = JsonRoundTrip(h[r])], ref |-> n]

\* (faulty variant) a snapshot that keeps the world it was given
CreateSnapshotSharing(h, r, turn, label) ==
  [heap |-> h, snapshot |-> [turn |-> turn, world |-> r, label |-> label]]

\* createSnapshot: [turn, world, label] around a clone
CreateSnapshot(h, r, turn, label) ==
  LET c == CloneWorld(h, r) IN
    [heap |-> c.heap, snapshot |-> [turn |-> turn, world |-> c.ref, label |-> label]]

----------------------------------------------------------------------------
(* applyChange (transaction.ts): mutates the World in cell r in place.     *)
(* A change's field is kept as its split(".") result.                      *)

RemoveEntityField == <<"__remove_entity__">>
NewEntityField == <<"__new_entity__">>

RECURSIVE JoinPath(_)
JoinPath(path) ==
  IF Len(path) = 1 THEN path[1] ELSE path[1] \o "." \o JoinPath(Tail(path))

\* the descent through all but the last segment, then the assignment
RECURSIVE SetPath(_, _, _, _)
SetPath(target, parts, newValue, field) ==
  IF Len(parts) = 1
  THEN [error |-> NoError, val |-> Put(target, parts[1], Raw(newValue))]
  ELSE IF parts[1] \notin DOMAIN target
       THEN [error |-> "Invalid field path: \"" \o JoinPath(field) \o "\"", val |-> target]
       ELSE LET sub == SetPath(target[parts[1]], Tail(parts), newValue, field) IN
              IF sub.error # NoError
              THEN [error |-> sub.error, val |-> target]
              ELSE [error |-> NoError, val |-> [target EXCEPT ![parts[1]] = sub.val]]

\* (faulty variant) applyChange that throws when the entity to remove is absent
ApplyChangeStrictRemoval(h, r, change) ==
  LET w == h[r]
      index == FindIndex(w.entities, change.entityId)
  IN
  IF index = 0 /\ change.field # NewEntityField
  THEN [heap |-> h, error |-> "Entity not found: \"" \o change.entityId \o "\""]
  ELSE IF change.field = RemoveEntityField
  THEN [heap |-> [h EXCEPT ![r].entities = Splice(w.entities, index)], error |-> NoError]
  ELSE IF change.field = NewEntityField
  THEN [heap |-> [h EXCEPT ![r].entities = Append(w.entities, Raw(change.newValue))],
        error |-> NoError]
  ELSE LET set == SetPath(w.entities[index], change.field, change.newValue, change.field) IN
         IF set.error # NoError
         THEN [heap |-> h, error |-> set.error]
         ELSE [heap |-> [h EXCEPT ![r].entities[index] = set.val], error |-> NoError]

ApplyChange(h, r, change) ==
  LET w == h[r]
      index == FindIndex(w.entities, change.entityId)
  IN
  IF change.field = RemoveEntityField
  THEN [heap |-> IF index # 0
                 THEN [h EXCEPT ![r].entities = Splice(w.entities, index)]
                 ELSE h,
        error |-> NoError]
  ELSE IF change.field = NewEntityField /\ Truthy(change.newValue)
  THEN [heap |-> [h EXCEPT ![r].entities = Append(w.entities, Raw(change.newValue))],
        error |-> NoError]
  ELSE IF index = 0
  THEN [heap |-> h, error |-> "Entity not found: \"" \o change.entityId \o "\""]
  ELSE LET set == SetPath(w.entities[index], change.field, change.newValue, change.field) IN
         IF set.error # NoError
         THEN [heap |-> h, error |-> set.error]
         ELSE [heap |-> [h EXCEPT ![r].entities[index] = set.val], error |-> NoError]

\* (faulty variant) the changes applied last to first
RECURSIVE ApplyChangesReversed(_, _, _)
ApplyChangesReversed(h, r, changes) ==
  IF changes = <<>> THEN [heap |-> h, error |-> NoError]
  ELSE LET one == ApplyChange(h, r, changes[Len(changes)]) IN
         IF one.error # NoError THEN one
         ELSE ApplyChangesReversed(one.heap, r, SubSeq(changes, 1, Len(changes) - 1))

\* for (const change of this.transaction.changes) applyChange(newWorld, change):
\* stops at the first change that throws
RECURSIVE ApplyChanges(_, _, _)
ApplyChanges(h, r, changes) ==
  IF changes = <<>> THEN [heap |-> h, error |-> NoError]
  ELSE LET one == ApplyChange(h, r, Head(changes)) IN
         IF one.error # NoError THEN one
         ELSE ApplyChanges(one.heap, r, Tail(changes))

----------------------------------------------------------------------------
(* TransactionManager (transaction.ts).  An operation takes the machine    *)
(* state s = [heap, tx, calls, world, entityMap] and gives [s, error, ret]:*)
(* error is the message of the exception it throws (NoError: none), ret    *)
(* the reference of the World it returns (0: none).  s.calls logs the      *)
(* manager calls of the running operation.                                 *)

Logged(s, op, ok) == [s EXCEPT !.calls = Append(@, [op |-> op, ok |-> ok])]

Threw(s, op, msg) == [s |-> Logged(s, op, FALSE), error |-> msg, ret |-> 0]

InFlight(tx) == tx.exists /\ ~tx.committed /\ ~tx.rolledBack
Terminal(tx) == tx.exists /\ (tx.committed \/ tx.rolledBack)

\* crypto.randomUUID() for a transaction: an id that differs from the id of
\* the transaction it replaces
FreshId(tx) == IF tx.exists THEN 1 - tx.id ELSE 0

\* the transaction startTransaction installs
NewTransaction(s, w, turn) ==
  LET snap == CreateSnapshot(s.heap, w, turn, "pre_transaction") IN
    [s |-> Logged([s EXCEPT !.heap = snap.heap,
                            !.tx = [exists |-> TRUE,
                                    id |-> FreshId(s.tx),
                                    preSnapshot |-> snap.snapshot,
                                    changes |-> <<>>,
                                    committed |-> FALSE,
                                    rolledBack |-> FALSE]],
                  "startTransaction", TRUE),
     error |-> NoError, ret |-> 0]

\* (faulty variant) startTransaction that replaces an unfinished transaction
StartTransactionUnguarded(s, w, turn) == NewTransaction(s, w, turn)

StartTransaction(s, w, turn) ==
  IF s.tx.exists /\ ~s.tx.committed /\ ~s.tx.rolledBack
  THEN Threw(s, "startTransaction",
             "Cannot start transaction: existing transaction not completed")
  ELSE NewTransaction(s, w, turn)

\* { ...change, id: crypto.randomUUID() }: an id unique in its transaction
FullChange(s, change) == Put(change, "id", <<s.tx.id, Len(s.tx.changes) + 1>>)

\* (faulty variant) recordChange that puts the change in front of the list
RecordChangeInFront(s, change) ==
  IF ~s.tx.exists \/ s.tx.committed \/ s.tx.rolledBack
  THEN Threw(s, "recordChange", "No active transaction")
  ELSE [s |-> Logged([s EXCEPT !.tx.changes = <<FullChange(s, change)>> \o @],
                     "recordChange", TRUE),
        error |-> NoError, ret |-> 0]

RecordChange(s, change) ==
  IF ~s.tx.exists \/ s.tx.committed \/ s.tx.rolledBack
  THEN Threw(s, "recordChange", "No active transaction")
  ELSE [s |-> Logged([s EXCEPT !.tx.changes = Append(@, FullChange(s, change))],
                     "recordChange", TRUE),
        error |-> NoError, ret |-> 0]

\* (faulty variant) the committed flag set before the loop over the changes
CommitOntoMarkingFirst(s, newWorld) ==
  LET applied == ApplyChanges(newWorld.heap, newWorld.ref, s.tx.changes) IN
    IF applied.error # NoError
    THEN Threw([s EXCEPT !.heap = applied.heap, !.tx.committed = TRUE],
               "commit", applied.error)
    ELSE [s |-> Logged([s EXCEPT !.heap = applied.heap, !.tx.committed = TRUE],
                       "commit", TRUE),
          error |-> NoError, ret |-> newWorld.ref]

\* the loop of commit over newWorld, then the committed flag
CommitOnto(s, newWorld) ==
  LET applied == ApplyChanges(newWorld.heap, newWorld.ref, s.tx.changes) IN
    IF applied.error # NoError
    THEN Threw([s EXCEPT !.heap = applied.heap], "commit", applied.error)
    ELSE [s |-> Logged([s EXCEPT !.heap = applied.heap, !.tx.committed = TRUE],
                       "commit", TRUE),
          error |-> NoError, ret |-> newWorld.ref]

\* (faulty variant) commit that applies the changes to its argument, without cloning
CommitInPlace(s, w) ==
  IF ~s.tx.exists
  THEN Threw(s, "commit", "No transaction to commit")
  ELSE IF s.tx.committed \/ s.tx.rolledBack
  THEN Threw(s, "commit", "Transaction already completed")
  ELSE CommitOnto(s, [heap |-> s.heap, ref |-> w])

\* (faulty variant) commit without the check for a completed transaction
CommitUnchecked(s, w) ==
  IF ~s.tx.exists
  THEN Threw(s, "commit", "No transaction to commit")
  ELSE CommitOnto(s, CloneWorld(s.heap, w))

Commit(s, w) ==
  IF ~s.tx.exists
  THEN Threw(s, "commit", "No transaction to commit")
  ELSE IF s.tx.committed \/ s.tx.rolledBack
  THEN Threw(s, "commit", "Transaction already completed")
  ELSE CommitOnto(s, CloneWorld(s.heap, w))

\* the rolledBack flag, then a clone of the snapshot's world
RollbackNow(s) ==
  LET c == CloneWorld(s.heap, s.tx.preSnapshot.world) IN
    [s |-> Logged([s EXCEPT !.heap = c.heap, !.tx.rolledBack = TRUE],
                  "rollback", TRUE),
     error |-> NoError, ret |-> c.ref]

\* (faulty variant) rollback without the check for a committed transaction
RollbackUnchecked(s) ==
  IF ~s.tx.exists
  THEN Threw(s, "rollback", "No transaction to rollback")
  ELSE RollbackNow(s)

Rollback(s) ==
  IF ~s.tx.exists
  THEN Threw(s, "rollback", "No transaction to rollback")
  ELSE IF s.tx.committed
  THEN Threw(s, "rollback", "Cannot rollback committed transaction")
  ELSE RollbackNow(s)

\* changes.map((c) => c.description)
RECURSIVE Descriptions(_)
Descriptions(changes) ==
  IF changes = <<>> THEN <<>>
  ELSE <<Head(changes).description>> \o Descriptions(Tail(changes))

\* (faulty variant) the descriptions with the newest first
RECURSIVE DescriptionsNewestFirst(_)
DescriptionsNewestFirst(changes) ==
  IF changes = <<>> THEN <<>>
  ELSE DescriptionsNewestFirst(Tail(changes)) \o <<Head(changes).description>>

GetChangeDescriptionsNewestFirst(s) ==
  IF ~s.tx.exists THEN <<>> ELSE DescriptionsNewestFirst(s.tx.changes)

GetChangeDescriptions(s) ==
  IF ~s.tx.exists THEN <<>> ELSE Descriptions(s.tx.changes)

----------------------------------------------------------------------------
(* ActionEngine (engine.ts).  The engine is the part [world, entityMap] of *)
(* the machine state, its private TransactionManager the part [tx].        *)
(* entityMap holds, for an id, the position in world.entities of the       *)
(* entity object the Map refers to.                                        *)

\* JavaScript undefined: Map.get of a missing key, a field that is not set
Undefined == [undefined |-> TRUE]

\* new Map(world.entities.map((e) => [e.id, e])): a later entry replaces an
\* earlier one with the same id
BuildEntityMap(entities) ==
  [id \in {entities[i].id : i \in 1 .. Len(entities)} |->
     CHOOSE i \in 1 .. Len(entities) :
       /\ entities[i].id = id
       /\ \A j \in 1 .. Len(entities) : entities[j].id = id => j <= i]

\* this.entityMap.get(id)
MapGet(s, id) ==
  IF id \in DOMAIN s.entityMap
  THEN s.heap[s.world].entities[s.entityMap[id]]
  ELSE Undefined

\* e.f, undefined when the field is not set
Get(e, f) == IF f \in DOMAIN e THEN e[f] ELSE Undefined

\* constructor(world)
NewEngine(h, w) ==
  LET c == CloneWorld(h, w) IN
    [heap |-> c.heap, tx |-> NoTransaction, calls |-> <<>>,
     world |-> c.ref, entityMap |-> BuildEntityMap(c.heap[c.ref].entities)]

\* getPlayerState(playerId)
GetPlayerState(s, playerId) ==
  LET player == MapGet(s, playerId) IN
    IF player = Undefined \/ player.type # "person" THEN Null
    ELSE [currentLocation |-> Get(player, "location"),
          health |-> Get(player, "health"),
          energy |-> Get(player, "energy"),
          inventory |-> Get(player, "inventory")]

\* getEntity(entityId)
GetEntity(s, entityId) == MapGet(s, entityId)

\* an Action with a target, and one without
TargetAction(type, target, description, energyCost) ==
  [type |-> type, target |-> target, description |-> description,
   energyCost |-> energyCost]
PlainAction(type, description, energyCost) ==
  [type |-> type, description |-> description, energyCost |-> energyCost]

\* Object.entries(connections): the keys in insertion order, which JSON
\* keeps; in the worlds of the model that is the order of this list
KeyOrder == <<"tavern", "forest", "locked_room", "void">>
RECURSIVE KeysIn(_, _)
KeysIn(obj, order) ==
  IF order = <<>> THEN <<>>
  ELSE (IF Head(order) \in DOMAIN obj THEN <<Head(order)>> ELSE <<>>)
         \o KeysIn(obj, Tail(order))

\* this.world.entities.filter(person here, not the player)
RECURSIVE PeopleHere(_, _, _)
PeopleHere(entities, player, playerId) ==
  IF entities = <<>> THEN <<>>
  ELSE (IF /\ Head(entities).type = "person"
           /\ Get(Head(entities), "location") = Get(player, "location")
           /\ Head(entities).id # playerId
        THEN <<Head(entities)>> ELSE <<>>)
         \o PeopleHere(Tail(entities), player, playerId)

\* (faulty variant) the items of the world, wherever they are
RECURSIVE ItemsAnywhere(_, _)
ItemsAnywhere(entities, player) ==
  IF entities = <<>> THEN <<>>
  ELSE (IF Head(entities).type = "item" THEN <<Head(entities)>> ELSE <<>>)
         \o ItemsAnywhere(Tail(entities), player)

\* this.world.entities.filter(item here)
RECURSIVE ItemsHere(_, _)
ItemsHere(entities, player) ==
  IF entities = <<>> THEN <<>>
  ELSE (IF /\ Head(entities).type = "item"
           /\ Get(Head(entities), "location") = Get(player, "location")
        THEN <<Head(entities)>> ELSE <<>>)
         \o ItemsHere(Tail(entities), player)

\* player.inventory.map((id) => this.entityMap.get(id)).filter(Boolean)
RECURSIVE Carried(_, _)
Carried(s, inventory) ==
  IF inventory = <<>> THEN <<>>
  ELSE (IF MapGet(s, Head(inventory)) # Undefined
        THEN <<MapGet(s, Head(inventory))>> ELSE <<>>)
         \o Carried(s, Tail(inventory))

\* (faulty variant) the MOVE actions without the test of the required item
RECURSIVE MoveActionsUnlocked(_, _, _, _)
MoveActionsUnlocked(s, player, connections, targets) ==
  IF targets = <<>> THEN <<>>
  ELSE LET targetId == Head(targets)
           connection == connections[targetId]
           targetPlace == MapGet(s, targetId)
           lacksHealth == /\ connection.requires_health # 0
                          /\ player.health < connection.requires_health
       IN (IF targetPlace # Undefined /\ ~lacksHealth
           THEN <<TargetAction("MOVE", targetId, "Travel to " \o targetPlace.name, 5)>>
           ELSE <<>>)
            \o MoveActionsUnlocked(s, player, connections, Tail(targets))

\* the MOVE actions: one for each connection whose target exists and whose
\* requirements the player meets
RECURSIVE MoveActions(_, _, _, _)
MoveActions(s, player, connections, targets) ==
  IF targets = <<>> THEN <<>>
  ELSE LET targetId == Head(targets)
           connection == connections[targetId]
           targetPlace == MapGet(s, targetId)
           lacksItem == /\ connection.requires_item # ""
                        /\ ~Includes(player.inventory, connection.requires_item)
           lacksHealth == /\ connection.requires_health # 0
                          /\ player.health < connection.requires_health
       IN (IF targetPlace # Undefined /\ ~lacksItem /\ ~lacksHealth
           THEN <<TargetAction("MOVE", targetId, "Travel to " \o targetPlace.name, 5)>>
           ELSE <<>>)
            \o MoveActions(s, player, connections, Tail(targets))

\* one action of a kind for each entity of a list
RECURSIVE ActionsFor(_, _, _, _)
ActionsFor(type, verb, cost, entities) ==
  IF entities = <<>> THEN <<>>
  ELSE <<TargetAction(type, Head(entities).id, verb \o Head(entities).name, cost)>>
         \o ActionsFor(type, verb, cost, Tail(entities))

\* (faulty variant) no test of usable
AlsoUnusable(entities) == entities

RECURSIVE OnlyUsable(_)
OnlyUsable(entities) ==
  IF entities = <<>> THEN <<>>
  ELSE (IF Get(Head(entities), "usable") = TRUE THEN <<Head(entities)>> ELSE <<>>)
         \o OnlyUsable(Tail(entities))

RECURSIVE OnlyItems(_)
OnlyItems(entities) ==
  IF entities = <<>> THEN <<>>
  ELSE (IF Head(entities).type = "item" THEN <<Head(entities)>> ELSE <<>>)
         \o OnlyItems(Tail(entities))

\* generateValidActions(playerId)
GenerateValidActions(s, playerId) ==
  LET player == MapGet(s, playerId) IN
  IF player = Undefined \/ player.type # "person" THEN <<>>
  ELSE
  LET playerLocation == MapGet(s, player.location) IN
  IF playerLocation = Undefined \/ playerLocation.type # "place" THEN <<>>
  ELSE
  LET entities == s.heap[s.world].entities
      peopleHere == PeopleHere(entities, player, playerId)
      itemsHere == ItemsHere(entities, player)
      carried == Carried(s, player.inventory)
  IN
    <<PlainAction("REST", "Rest to recover energy", 0),
      PlainAction("WAIT", "Wait and observe", 0)>>
    \o (IF player.energy >= 5
        THEN <<PlainAction("EXPLORE",
                 "Explore your surroundings to discover something new", 4)>>
        ELSE <<>>)
    \o (IF "connections" \in DOMAIN playerLocation /\ player.energy > 10
        THEN MoveActions(s, player, playerLocation.connections,
                         KeysIn(playerLocation.connections, KeyOrder))
        ELSE <<>>)
    \o (IF player.energy >= 5
        THEN ActionsFor("TALK", "Talk to ", 3, peopleHere) ELSE <<>>)
    \o ActionsFor("TAKE_ITEM", "Pick up ", 0, itemsHere)
    \o ActionsFor("DROP_ITEM", "Drop ", 0, carried)
    \o ActionsFor("USE_ITEM", "Use ", 0, OnlyUsable(carried))
    \o (IF player.energy >= 2
        THEN ActionsFor("EXAMINE", "Examine ", 1, peopleHere)
               \o ActionsFor("EXAMINE", "Examine ", 1, OnlyItems(itemsHere \o carried))
               \o <<TargetAction("EXAMINE", player.location,
                                 "Examine " \o playerLocation.name, 1)>>
        ELSE <<>>)

\* validateAction with the energy test alone
ValidateActionEnergyOnly(s, action, player) ==
  IF player.energy < action.energyCost
  THEN "Not enough energy. Need " \o ToString(action.energyCost)
         \o ", have " \o ToString(player.energy) \o "."
  ELSE ""

\* validateAction with the energy test widened to <=
ValidateActionStrict(s, action, player) ==
  IF player.energy <= action.energyCost
  THEN "Not enough energy. Need " \o ToString(action.energyCost)
         \o ", have " \o ToString(player.energy) \o "."
  ELSE ""

\* validateAction(action, player): the message, or "" for null
ValidateAction(s, action, player) ==
  IF player.energy < action.energyCost
  THEN "Not enough energy. Need " \o ToString(action.energyCost)
         \o ", have " \o ToString(player.energy) \o "."
  ELSE IF action.type = "MOVE"
  THEN LET location == MapGet(s, player.location) IN
         IF \/ location = Undefined
            \/ "connections" \notin DOMAIN location
            \/ action.target \notin DOMAIN location.connections
         THEN "Cannot move to " \o action.target \o ": not connected."
         ELSE ""
  ELSE IF action.type = "TAKE_ITEM"
  THEN LET item == MapGet(s, action.target) IN
         IF \/ item = Undefined
            \/ item.type # "item"
            \/ Get(item, "location") # Get(player, "location")
         THEN "Cannot take item: not available."
         ELSE ""
  ELSE IF action.type = "DROP_ITEM"
  THEN IF ~Includes(player.inventory, action.target)
       THEN "Cannot drop item: not in inventory." ELSE ""
  ELSE IF action.type = "USE_ITEM"
  THEN IF ~Includes(player.inventory, action.target)
       THEN "Cannot use item: not in inventory." ELSE ""
  ELSE IF action.type = "TALK"
  THEN LET target == MapGet(s, action.target) IN
         IF target = Undefined \/ target.type # "person"
         THEN "Cannot talk to: invalid target."
         ELSE IF Get(target, "location") # Get(player, "location")
         THEN "Cannot talk to: not in same location."
         ELSE ""
  ELSE IF action.type = "EXAMINE"
  THEN IF MapGet(s, action.target) = Undefined
       THEN "Cannot examine: invalid target." ELSE ""
  ELSE ""

\* a partial change (StateChange without its id)
Change(entityId, field, oldValue, newValue, turn, description) ==
  [entityId |-> entityId, field |-> field, oldValue |-> oldValue,
   newValue |-> newValue, turn |-> turn, description |-> description]

\* "Energy ..." / "Health ..." of createEnergyChange and createHealthChange
GaugeText(gauge, old, new, reason) ==
  gauge \o " " \o (IF new > old THEN "increased" ELSE "decreased") \o " by "
    \o ToString(Abs(new - old)) \o " (" \o reason \o "). Now "
    \o ToString(new) \o "/100."

CreateEnergyChange(entityId, oldEnergy, newEnergy, turn, reason) ==
  Change(entityId, <<"energy">>, Num(oldEnergy), Num(newEnergy), turn,
         GaugeText("Energy", oldEnergy, newEnergy, reason))

CreateHealthChange(entityId, oldHealth, newHealth, turn, reason) ==
  Change(entityId, <<"health">>, Num(oldHealth), Num(newHealth), turn,
         GaugeText("Health", oldHealth, newHealth, reason))

CreateLocationChange(entityId, oldLocation, newLocation, turn) ==
  Change(entityId, <<"location">>, Str(oldLocation), Str(newLocation), turn,
         "Moved from " \o oldLocation \o " to " \o newLocation \o ".")

CreateInventoryChange(entityId, oldInventory, newInventory, turn, action, itemId) ==
  Change(entityId, <<"inventory">>, List(oldInventory), List(newInventory), turn,
         IF action = "add"
         THEN "Added " \o itemId \o " to inventory."
         ELSE "Removed " \o itemId \o " from inventory.")

\* The record...Changes methods give [changes, error]: the changes they
\* pass to recordChange, in order, and the message of the Error they throw
\* ("" when they return); each of them throws before it records anything.
Recorded(changes) == [changes |-> changes, error |-> NoError]
Thrown(message) == [changes |-> <<>>, error |-> message]

\* recordMoveChanges that also spends a unit of health on the way
RecordMoveChangesTiring(s, player, action, turn) ==
  Recorded(<<CreateLocationChange(player.id, player.location, action.target, turn),
             CreateHealthChange(player.id, player.health,
                                Max(0, player.health - 1), turn, "travel")>>)

RecordMoveChanges(s, player, action, turn) ==
  Recorded(<<CreateLocationChange(player.id, player.location, action.target, turn)>>)

\* (faulty variant) talking that marks the player, not the target
RecordTalkChangesOnSelf(s, player, action, turn) ==
  Recorded(<<Change(player.id, <<"__conversation__">>, Null, Num(turn), turn,
                    "Had a conversation with " \o action.target \o ".")>>)

RecordTalkChanges(s, player, action, turn) ==
  LET target == MapGet(s, action.target) IN
    Recorded(<<Change(action.target, <<"__conversation__">>, Null, Num(turn), turn,
                      "Had a conversation with "
                        \o (IF target # Undefined THEN target.name ELSE action.target)
                        \o ".")>>)

\* (faulty variant) the inventory gains the item, the item stays where it lay
RecordTakeItemChangesLeavingItem(s, player, action, turn) ==
  LET item == MapGet(s, action.target) IN
    IF item = Undefined
    THEN Thrown("Item not found: \"" \o action.target \o "\"")
    ELSE Recorded(
           <<CreateInventoryChange(player.id, player.inventory,
                                   Append(player.inventory, item.id),
                                   turn, "add", item.name)>>)

RecordTakeItemChanges(s, player, action, turn) ==
  LET item == MapGet(s, action.target) IN
    IF item = Undefined
    THEN Thrown("Item not found: \"" \o action.target \o "\"")
    ELSE Recorded(
           <<Change(item.id, <<"location">>, Str(item.location), Str(player.id), turn,
                    item.name \o " picked up."),
             CreateInventoryChange(player.id, player.inventory,
                                   Append(player.inventory, item.id),
                                   turn, "add", item.name)>>)

\* (faulty variant) dropping that leaves the item's location at the player
RecordDropItemChangesKeepingPlace(s, player, action, turn) ==
  LET item == MapGet(s, action.target) IN
    IF item = Undefined
    THEN Thrown("Item not found: \"" \o action.target \o "\"")
    ELSE Recorded(
           <<CreateInventoryChange(player.id, player.inventory,
                                   Without(player.inventory, item.id),
                                   turn, "remove", item.name)>>)

RecordDropItemChanges(s, player, action, turn) ==
  LET item == MapGet(s, action.target) IN
    IF item = Undefined
    THEN Thrown("Item not found: \"" \o action.target \o "\"")
    ELSE Recorded(
           <<Change(item.id, <<"location">>, Str(player.id), Str(player.location), turn,
                    item.name \o " dropped."),
             CreateInventoryChange(player.id, player.inventory,
                                   Without(player.inventory, item.id),
                                   turn, "remove", item.name)>>)

\* (faulty variant) using an item without the clamp of the new values
RecordUseItemChangesUnclamped(s, player, action, turn) ==
  LET item == MapGet(s, action.target)
      effects == IF item # Undefined /\ "effects" \in DOMAIN item
                 THEN item.effects ELSE [health |-> 0, energy |-> 0]
  IN
    IF item = Undefined \/ item.type # "item"
    THEN Thrown("Invalid item: \"" \o action.target \o "\"")
    ELSE Recorded(
           <<CreateHealthChange(player.id, player.health,
               player.health + effects.health, turn, "used " \o item.name),
             CreateEnergyChange(player.id, player.energy,
               player.energy + effects.energy, turn, "used " \o item.name)>>)

\* (faulty variant) using a consumable takes it from the inventory and
\* leaves its entity in the world
RecordUseItemChangesKeepingEntity(s, player, action, turn) ==
  LET item == MapGet(s, action.target) IN
    IF item = Undefined \/ item.type # "item"
    THEN Thrown("Invalid item: \"" \o action.target \o "\"")
    ELSE Recorded(
           IF Get(item, "consumable") = TRUE
           THEN <<CreateInventoryChange(player.id, player.inventory,
                    Without(player.inventory, item.id),
                    turn, "remove", item.name)>>
           ELSE <<>>)

RecordUseItemChanges(s, player, action, turn) ==
  LET item == MapGet(s, action.target)
      effects == IF item # Undefined /\ "effects" \in DOMAIN item
                 THEN item.effects ELSE [health |-> 0, energy |-> 0]
  IN
    IF item = Undefined \/ item.type # "item"
    THEN Thrown("Invalid item: \"" \o action.target \o "\"")
    ELSE Recorded(
           (IF effects.health # 0
            THEN <<CreateHealthChange(player.id, player.health,
                     Max(0, Min(100, player.health + effects.health)),
                     turn, "used " \o item.name)>>
            ELSE <<>>)
           \o (IF effects.energy # 0
               THEN <<CreateEnergyChange(player.id, player.energy,
                        Max(0, Min(100, player.energy + effects.energy)),
                        turn, "used " \o item.name)>>
               ELSE <<>>)
           \o (IF Get(item, "consumable") = TRUE
               THEN <<CreateInventoryChange(player.id, player.inventory,
                        Without(player.inventory, item.id),
                        turn, "remove", item.name),
                      Change(item.id, RemoveEntityField, Obj(item), Null, turn,
                             item.name \o " was consumed.")>>
               ELSE <<>>))

RecordExamineChanges(s, action, turn) ==
  LET target == MapGet(s, action.target) IN
    IF target = Undefined
    THEN Thrown("Target not found: \"" \o action.target \o "\"")
    ELSE Recorded(<<Change(action.target, <<"__examined__">>, Null, Num(turn), turn,
                           "Examined " \o target.name \o ".")>>)

\* (faulty variant) resting that recovers 10
RecordRestChangesBrief(s, player, turn) ==
  Recorded(<<CreateEnergyChange(player.id, player.energy,
                                Min(100, player.energy + 10), turn, "resting")>>)

\* (faulty variant) resting that also restores health
RecordRestChangesHealing(s, player, turn) ==
  Recorded(<<CreateEnergyChange(player.id, player.energy,
                                Min(100, player.energy + 70), turn, "resting"),
             CreateHealthChange(player.id, player.health,
                                Min(100, player.health + 10), turn, "resting")>>)

\* (faulty variant) resting without the cap at 100
RecordRestChangesUncapped(s, player, turn) ==
  Recorded(<<CreateEnergyChange(player.id, player.energy,
                                player.energy + 70, turn, "resting")>>)

RecordRestChanges(s, player, turn) ==
  Recorded(<<CreateEnergyChange(player.id, player.energy,
                                Min(100, player.energy + 70), turn, "resting")>>)

\* the switch of executeAction
RecordActionChanges(s, player, action, turn) ==
  CASE action.type = "MOVE" -> RecordMoveChanges(s, player, action, turn)
    [] action.type = "TALK" -> RecordTalkChanges(s, player, action, turn)
    [] action.type = "TAKE_ITEM" -> RecordTakeItemChanges(s, player, action, turn)
    [] action.type = "DROP_ITEM" -> RecordDropItemChanges(s, player, action, turn)
    [] action.type = "USE_ITEM" -> RecordUseItemChanges(s, player, action, turn)
    [] action.type = "EXAMINE" -> RecordExamineChanges(s, action, turn)
    [] action.type = "REST" -> RecordRestChanges(s, player, turn)
    [] OTHER -> Recorded(<<>>)

\* the recordChange calls of one executeAction, until one throws
RECURSIVE RecordAll(_, _)
RecordAll(s, changes) ==
  IF changes = <<>> THEN [s |-> s, error |-> NoError]
  ELSE LET one == RecordChange(s, Head(changes)) IN
         IF one.error # NoError THEN [s |-> one.s, error |-> one.error]
         ELSE RecordAll(one.s, Tail(changes))

\* executeAction gives [s, thrown, result]: the machine after the call, the
\* message of an Error that escapes it ("" when it returns), the ActionResult
Escaped(s, message) == [s |-> s, thrown |-> message, result |-> Undefined]
Failure(s, w, error) ==
  [s |-> s, thrown |-> NoError,
   result |-> [success |-> FALSE, world |-> w, changes |-> <<>>, error |-> error]]

\* (faulty variant) a rejected action leaves its transaction open
RejectActionNoRollback(s, validationError) == Failure(s, s.world, validationError)

\* if (validationError) { rollback(); return failure over this.world }
RejectAction(s, validationError) ==
  LET rolled == Rollback(s) IN
    IF rolled.error # NoError THEN Escaped(rolled.s, rolled.error)
    ELSE Failure(rolled.s, s.world, validationError)

\* (faulty variant) the catch block keeps what was recorded: it commits and
\* hands out the committed world
CatchErrorCommitting(s, message) ==
  LET done == Commit(s, s.world) IN
    IF done.error # NoError THEN Escaped(done.s, done.error)
    ELSE Failure(done.s, done.ret, message)

\* (faulty variant) the catch block commits what was recorded and makes the
\* committed world the engine's
CatchErrorAdopting(s, message) ==
  LET done == Commit(s, s.world) IN
    IF done.error # NoError THEN Escaped(done.s, done.error)
    ELSE Failure([done.s EXCEPT !.world = done.ret,
                                !.entityMap = BuildEntityMap(done.s.heap[done.ret].entities)],
                 done.ret, message)

\* catch (error) { originalWorld = rollback(); return failure over it }
CatchError(s, message) ==
  LET rolled == Rollback(s) IN
    IF rolled.error # NoError THEN Escaped(rolled.s, rolled.error)
    ELSE Failure(rolled.s, rolled.ret, message)

\* (faulty variant) the try block that returns the committed world and
\* keeps the engine's world and map as they were
TryActionNotAdopting(s, playerId, player, action, turn) ==
  LET validationError == ValidateAction(s, action, player) IN
  IF validationError # ""
  THEN RejectAction(s, validationError)
  ELSE
  LET cost == IF action.energyCost > 0
              THEN <<CreateEnergyChange(playerId, player.energy,
                       Max(0, player.energy - action.energyCost), turn, action.type)>>
              ELSE <<>>
      specific == RecordActionChanges(s, player, action, turn)
      recorded == RecordAll(s, cost \o specific.changes)
  IN
  IF recorded.error # NoError THEN CatchError(recorded.s, recorded.error)
  ELSE IF specific.error # NoError THEN CatchError(recorded.s, specific.error)
  ELSE
  LET done == Commit(recorded.s, recorded.s.world) IN
  IF done.error # NoError THEN CatchError(done.s, done.error)
  ELSE [s |-> done.s,
        thrown |-> NoError,
        result |-> [success |-> TRUE, world |-> done.ret,
                    changes |-> GetChangeDescriptions(done.s)]]

\* the try block of executeAction
TryAction(s, playerId, player, action, turn) ==
  LET validationError == ValidateAction(s, action, player) IN
  IF validationError # ""
  THEN RejectAction(s, validationError)
  ELSE
  LET cost == IF action.energyCost > 0
              THEN <<CreateEnergyChange(playerId, player.energy,
                       Max(0, player.energy - action.energyCost), turn, action.type)>>
              ELSE <<>>
      specific == RecordActionChanges(s, player, action, turn)
      recorded == RecordAll(s, cost \o specific.changes)
  IN
  IF recorded.error # NoError THEN CatchError(recorded.s, recorded.error)
  ELSE IF specific.error # NoError THEN CatchError(recorded.s, specific.error)
  ELSE
  LET done == Commit(recorded.s, recorded.s.world) IN
  IF done.error # NoError THEN CatchError(done.s, done.error)
  ELSE [s |-> [done.s EXCEPT !.world = done.ret,
                             !.entityMap = BuildEntityMap(done.s.heap[done.ret].entities)],
        thrown |-> NoError,
        result |-> [success |-> TRUE, world |-> done.ret,
                    changes |-> GetChangeDescriptions(done.s)]]

\* (faulty variant) executeAction that starts its transaction before it
\* looks at the player
ExecuteActionStartingFirst(s, playerId, action, turn) ==
  LET player == MapGet(s, playerId)
      started == StartTransaction(s, s.world, turn)
  IN IF started.error # NoError THEN Escaped(started.s, started.error)
     ELSE IF player = Undefined \/ player.type # "person"
     THEN RejectAction(started.s, "Invalid player")
     ELSE TryAction(started.s, playerId, player, action, turn)

\* executeAction(playerId, action, turn)
ExecuteAction(s, playerId, action, turn) ==
  LET player == MapGet(s, playerId) IN
  IF player = Undefined \/ player.type # "person"
  THEN Failure(s, s.world, "Invalid player")
  ELSE LET started == StartTransaction(s, s.world, turn) IN
         IF started.error # NoError THEN Escaped(started.s, started.error)
         ELSE TryAction(started.s, playerId, player, action, turn)

----------------------------------------------------------------------------
(* The worlds the runs start from: the test world of engine.test.ts,       *)
(* reduced to three places, two people and two items.                      *)

Req(item, health) == [requires_item |-> item, requires_health |-> health]

Tavern ==
  Place("tavern", "The Tavern",
        [t \in {"forest", "locked_room"} |->
           IF t = "forest" THEN NoReq ELSE Req("key", 0)])
Forest == Place("forest", "Dark Forest", [t \in {"tavern"} |-> Req("", 50)])
LockedRoom == Place("locked_room", "Locked Room", [t \in {"tavern"} |-> NoReq])
Hero(inventory) == Person("player", "Hero", "tavern", 90, 100, inventory)
Bartender == Person("npc", "Bartender", "tavern", 100, 100, <<>>)
Potion ==
  Item("potion", "Health Potion", "tavern", TRUE, TRUE, [health |-> 30, energy |-> 0])
\* an item without effects
Key ==
  [id |-> "key", name |-> "Rusty Key", type |-> "item", location |-> "tavern",
   usable |-> FALSE, consumable |-> FALSE]
\* the entity a direct caller adds with __new_entity__
Sword ==
  [id |-> "sword", name |-> "Iron Sword", type |-> "item", location |-> "forest"]

BaseWorld == MkWorld(<<Tavern, Forest, LockedRoom, Hero(<<>>), Bartender, Potion, Key>>)
\* the player carries the id of an item that is no entity of the world
GhostWorld ==
  MkWorld(<<Tavern, Forest, LockedRoom, Hero(<<"ghost_item">>), Bartender, Potion, Key>>)

InitWorlds == {BaseWorld, GhostWorld}

----------------------------------------------------------------------------
(* The harness: what a step does around the call it makes *)

MachineState ==
  [heap |-> heap, tx |-> transaction, calls |-> <<>>,
   world |-> world, entityMap |-> entityMap]

NoResult == [none |-> TRUE]

\* the cells some reference still reaches after the call
Roots(s, working, ret) ==
  {orig.ref, working, ret, s.world}
    \cup (IF s.tx.exists THEN {s.tx.preSnapshot.world} ELSE {})

Collect(h, roots) == [r \in Refs |-> IF r \in roots THEN h[r] ELSE NoObj]

\* the state after a call of a direct caller of the manager
Returned(op, input, out) ==
  /\ heap' = Collect(out.s.heap, Roots(out.s, cw, out.ret))
  /\ transaction' = out.s.tx
  /\ tmCalls' = out.s.calls
  /\ last' = [op |-> op, input |-> input, error |-> out.error, ret |-> out.ret,
              result |-> NoResult]
  /\ kept' = IF op = "startTransaction" /\ out.error = NoError
                THEN heap[cw] ELSE kept
  /\ UNCHANGED <<world, entityMap, cw, orig, session, running>>

\* the partial changes a direct caller records
ChangeInput(entityId, field, oldValue, newValue, description) ==
  [entityId |-> entityId, field |-> field, oldValue |-> oldValue,
   newValue |-> newValue, turn |-> 1, description |-> description]

\* (those of transaction_test.ts)
ChangeInputs ==
  << ChangeInput("player", <<"energy">>, Num(100), Num(70), "Energy decreased"),
     ChangeInput("player", <<"energy">>, Num(100), Num(0), "Energy depleted"),
     ChangeInput("player", <<"location">>, Str("tavern"), Str("forest"), "Moved to forest"),
     ChangeInput("potion", RemoveEntityField, Obj(Potion), Null, "Potion consumed"),
     ChangeInput("sword", NewEntityField, Null, Obj(Sword), "Found a sword") >>

TMStart ==
  \E turn \in Turns :
    /\ cw # 0
    /\ Returned("startTransaction", [turn |-> turn],
                StartTransaction(MachineState, cw, turn))

TMRecord ==
  \E i \in 1 .. Len(ChangeInputs) :
    /\ cw # 0
    /\ transaction.exists => Len(transaction.changes) < MaxChanges
    /\ Returned("recordChange", NoResult, RecordChange(MachineState, ChangeInputs[i]))

TMCommit ==
  /\ cw # 0
  /\ Returned("commit", [world |-> cw], Commit(MachineState, cw))

TMRollback ==
  /\ cw # 0
  /\ Returned("rollback", NoResult, Rollback(MachineState))

InitTM ==
  /\ heap = [EmptyHeap EXCEPT ![1] = BaseWorld]
  /\ orig = [ref |-> 1, copy |-> BaseWorld]
  /\ cw = 1
  /\ transaction = NoTransaction
  /\ world = 0
  /\ entityMap = <<>>
  /\ last = [op |-> "init", input |-> NoResult, error |-> NoError, ret |-> 0,
             result |-> NoResult]
  /\ tmCalls = <<>>
  /\ kept = NoResult
  /\ NoService

NextTM == TMStart \/ TMRecord \/ TMCommit \/ TMRollback

SpecTM == InitTM /\ [][NextTM]_vars

\* A caller that also writes to the World objects it holds, as the test
\* "snapshot is independent of original" does: world.world_name = "Modified"
Modified(w) == [w EXCEPT !.world_name = "Modified"]

\* the caller writes to its working world, or to the world the last call
\* returned
CallerMutates ==
  \E r \in ({cw, last.ret} \ {0}) :
    /\ heap[r] # NoObj
    /\ heap[r] # Modified(heap[r])
    /\ heap' = [heap EXCEPT ![r] = Modified(@)]
    /\ last' = [op |-> "mutate", input |-> [world |-> r], error |-> NoError,
                ret |-> last.ret, result |-> NoResult]
    /\ UNCHANGED <<transaction, world, entityMap, cw, orig, tmCalls, kept,
                   session, running>>

NextTMM == NextTM \/ CallerMutates

SpecTMM == InitTM /\ [][NextTMM]_vars

----------------------------------------------------------------------------
(* A caller of one ActionEngine: it builds the engine from its world and   *)
(* then calls executeAction, keeping the world it gave and the result of   *)
(* the last call.                                                          *)

Call(playerId, action, turn) == [playerId |-> playerId, action |-> action, turn |-> turn]

\* the calls the caller makes: every kind of action for the player (those
\* of generateValidActions among them, with costs a caller may pass), and
\* calls for ids that are no person
CallInputs ==
  << Call("player", TargetAction("MOVE", "forest", "Travel to Dark Forest", 100), 1),
     Call("player", TargetAction("MOVE", "locked_room", "Travel to Locked Room", 0), 1),
     Call("player", TargetAction("MOVE", "tavern", "Travel to The Tavern", 0), 2),
     Call("player", TargetAction("TAKE_ITEM", "potion", "Pick up Health Potion", 0), 1),
     Call("player", TargetAction("DROP_ITEM", "potion", "Drop Health Potion", 0), 1),
     Call("player", TargetAction("USE_ITEM", "potion", "Use Health Potion", 0), 2),
     Call("player", TargetAction("USE_ITEM", "ghost_item", "Use ghost", 100), 1),
     Call("player", TargetAction("DROP_ITEM", "ghost_item", "Drop ghost", 0), 1),
     Call("player", TargetAction("TALK", "npc", "Talk to Bartender", 0), 1),
     Call("player", TargetAction("TALK", "potion", "Talk to Health Potion", 0), 1),
     Call("player", TargetAction("TAKE_ITEM", "npc", "Pick up Bartender", 0), 1),
     Call("player", TargetAction("EXAMINE", "potion", "Examine Health Potion", 0), 2),
     Call("player", TargetAction("EXAMINE", "nothing", "Examine nothing", 0), 1),
     Call("player", PlainAction("REST", "Rest to recover energy", 0), 1),
     Call("player", PlainAction("WAIT", "Wait and observe", 0), 1),
     Call("tavern", PlainAction("WAIT", "Wait and observe", 0), 1),
     Call("nobody", TargetAction("MOVE", "forest", "Travel to Dark Forest", 50), 1) >>

\* The collector of the model.  After executeAction the cells that no
\* reference reaches are freed and the others are moved to fixed places,
\* every reference following its object: the caller's first world to 1, the
\* engine's world to 2, the snapshot of the transaction to 3, a returned
\* world that is not the engine's to 4, and the world the engine had before
\* the call (which an earlier call returned, and the caller may still hold)
\* to 5 when the call replaced it.  Moved gives the new place of every cell,
\* 0 for a freed one.
Moved(s, ret) ==
  [r \in Refs |->
     IF r = orig.ref THEN 1
     ELSE IF r = s.world THEN 2
     ELSE IF s.tx.exists /\ r = s.tx.preSnapshot.world THEN 3
     ELSE IF r = ret THEN 4
     ELSE IF r = world THEN 5
     ELSE 0]

MovedRef(moved, r) == IF r = 0 THEN 0 ELSE moved[r]

Relocate(h, moved) ==
  [q \in Refs |->
     IF \E r \in Refs : moved[r] = q
     THEN h[CHOOSE r \in Refs : moved[r] = q]
     ELSE NoObj]

\* one executeAction call and the collection after it
ExecuteStep(call) ==
  \E out \in {ExecuteAction(MachineState, call.playerId, call.action, call.turn)} :
    LET ret == IF out.result = Undefined THEN 0 ELSE out.result.world
        moved == Moved(out.s, ret)
    IN /\ heap' = Relocate(out.s.heap, moved)
       /\ transaction' = IF out.s.tx.exists
                         THEN [out.s.tx EXCEPT !.preSnapshot.world = moved[@]]
                         ELSE out.s.tx
       /\ world' = moved[out.s.world]
       /\ entityMap' = out.s.entityMap
       /\ tmCalls' = out.s.calls
       /\ last' = [op |-> "executeAction", input |-> call,
                   error |-> out.thrown, ret |-> MovedRef(moved, ret),
                   result |-> IF out.result = Undefined THEN Undefined
                              ELSE [out.result EXCEPT !.world = moved[@]],
                   moved |-> moved]
       /\ UNCHANGED <<cw, orig, session, running>>

\* the caller makes one executeAction call
ExecuteCall(call) == ExecuteStep(call) /\ UNCHANGED kept

DoExecuteAction ==
  \E i \in 1 .. Len(CallInputs) :
    /\ world # 0
    /\ ExecuteCall(CallInputs[i])

Init ==
  \E w \in InitWorlds :
    LET engine == NewEngine([EmptyHeap EXCEPT ![1] = w], 1) IN
      /\ heap = engine.heap
      /\ orig = [ref |-> 1, copy |-> w]
      /\ cw = 0
      /\ transaction = engine.tx
      /\ world = engine.world
      /\ entityMap = engine.entityMap
      /\ last = [op |-> "new", input |-> NoResult, error |-> NoError, ret |-> 0,
                 result |-> NoResult]
      /\ tmCalls = <<>>
      /\ kept = NoResult
      /\ NoService

Next == DoExecuteAction

Spec == Init /\ [][Next]_vars

\* A caller whose player carries two items that are not used up: one whose
\* effects exceed what health and energy can gain, one whose effects exceed
\* what they can lose (as the item of "USE_ITEM health doesn't go below 0")
Elixir ==
  Item("elixir", "Elixir", "player", TRUE, FALSE, [health |-> 30, energy |-> 150])
Poison ==
  Item("poison", "Poison", "player", TRUE, FALSE, [health |-> -200, energy |-> -150])
\* one with a health effect and an energy effect of 0, one with both 0, and
\* one without effects
Tonic == Item("tonic", "Tonic", "player", TRUE, FALSE, [health |-> 20, energy |-> 0])
Charm == Item("charm", "Charm", "player", TRUE, FALSE, [health |-> 0, energy |-> 0])
Badge ==
  [id |-> "badge", name |-> "Badge", type |-> "item", location |-> "player",
   usable |-> TRUE, consumable |-> FALSE]
VitalsWorld ==
  MkWorld(<<Tavern, Forest, LockedRoom,
            Hero(<<"elixir", "poison", "tonic", "charm", "badge">>), Bartender,
            Elixir, Poison, Tonic, Charm, Badge>>)

VitalsInputs ==
  << Call("player", TargetAction("USE_ITEM", "elixir", "Use Elixir", 0), 1),
     Call("player", TargetAction("USE_ITEM", "poison", "Use Poison", 0), 1),
     Call("player", TargetAction("USE_ITEM", "elixir", "Use Elixir", 50), 1),
     Call("player", TargetAction("USE_ITEM", "tonic", "Use Tonic", 0), 1),
     Call("player", TargetAction("USE_ITEM", "charm", "Use Charm", 0), 1),
     Call("player", TargetAction("USE_ITEM", "badge", "Use Badge", 0), 1),
     Call("player", PlainAction("REST", "Rest to recover energy", 0), 1),
     Call("player", PlainAction("WAIT", "Wait and observe", 50), 1),
     Call("player", PlainAction("EXPLORE", "Explore", 120), 1),
     Call("player", TargetAction("MOVE", "forest", "Travel to Dark Forest", 20), 1),
     Call("player", TargetAction("MOVE", "tavern", "Travel to The Tavern", 100), 1),
     Call("player", PlainAction("REST", "Rest to recover energy", 50), 1) >>

DoVitalsAction ==
  \E i \in 1 .. Len(VitalsInputs) :
    /\ world # 0
    /\ ExecuteCall(VitalsInputs[i])

InitVitals ==
  LET engine == NewEngine([EmptyHeap EXCEPT ![1] = VitalsWorld], 1) IN
    /\ heap = engine.heap
    /\ orig = [ref |-> 1, copy |-> VitalsWorld]
    /\ cw = 0
    /\ transaction = engine.tx
    /\ world = engine.world
    /\ entityMap = engine.entityMap
    /\ last = [op |-> "new", input |-> NoResult, error |-> NoError, ret |-> 0,
               result |-> NoResult]
    /\ tmCalls = <<>>
    /\ kept = NoResult
    /\ NoService

NextVitals == DoVitalsAction

SpecVitals == InitVitals /\ [][NextVitals]_vars


-----------------------------------------------------------------------------
(* A caller that reads one ActionEngine: it builds the engine from a world *)
(* of a family around the thresholds of generateValidActions, calls the    *)
(* three read methods and now and then executeAction, and keeps the list   *)
(* generateValidActions last gave it for the player, with the stage it is  *)
(* at: "first" when it has the list, "failed" when an executeAction has    *)
(* failed since, "again" when it has asked for the list again after that.  *)
(* It drops the list when an executeAction succeeds.                       *)

ViewEnergies == {0, 1, 2, 4, 5, 10, 11}
ViewHealths == {49, 50}
ViewInventories == {<<>>, <<"potion", "key">>, <<"ghost_item">>}
\* a place with two ways out, a place with a health requirement, an id that
\* is no entity, and the id of an item
ViewLocations == {"tavern", "forest", "nowhere", "potion"}

\* where an item is: held by the player when the inventory lists it
HeldOrAt(id, inventory, place) ==
  IF Includes(inventory, id) THEN "player" ELSE place

\* the forest also lists a connection to an id that is no entity
ViewForest ==
  Place("forest", "Dark Forest",
        [t \in {"tavern", "void"} |-> IF t = "tavern" THEN Req("", 50) ELSE NoReq])

ViewWorld(energy, health, inventory, location) ==
  MkWorld(<<Tavern, ViewForest, LockedRoom,
            Person("player", "Hero", location, health, energy, inventory),
            Bartender,
            [Potion EXCEPT !.location = HeldOrAt("potion", inventory, "tavern")],
            [Key EXCEPT !.location = HeldOrAt("key", inventory, "tavern")]>>)

ViewPlayers == {"player", "tavern", "potion", "nobody"}
ViewEntities == {"potion", "nobody"}

ViewCalls ==
  << Call("player", TargetAction("MOVE", "forest", "Travel to Dark Forest", 0), 1),
     Call("player", TargetAction("MOVE", "tavern", "Travel to The Tavern", 0), 1),
     Call("player", TargetAction("USE_ITEM", "ghost_item", "Use ghost", 10), 1),
     Call("nobody", PlainAction("WAIT", "Wait and observe", 0), 1),
     Call("tavern", PlainAction("WAIT", "Wait and observe", 0), 1),
     Call("potion", PlainAction("WAIT", "Wait and observe", 0), 1) >>

NothingKept == [seen |-> FALSE]

\* a read method returned: none of the three assigns to a field of the
\* engine or to an entity, and none calls the manager
Read(op, input, result) ==
  /\ last' = [op |-> op, input |-> input, error |-> NoError, ret |-> 0,
              result |-> result]
  /\ tmCalls' = <<>>
  /\ UNCHANGED <<heap, transaction, world, entityMap, cw, orig, session, running>>

DoGenerateValidActions ==
  \E playerId \in ViewPlayers :
    \E actions \in {GenerateValidActions(MachineState, playerId)} :
      /\ world # 0
      /\ Read("generateValidActions", [playerId |-> playerId], actions)
      /\ kept' = IF playerId # "player" THEN kept
                 ELSE IF ~kept.seen
                 THEN [seen |-> TRUE, actions |-> actions, stage |-> "first"]
                 ELSE [kept EXCEPT !.actions = actions,
                                   !.stage = IF @ = "first" THEN @ ELSE "again"]

DoGetPlayerState ==
  \E playerId \in ViewPlayers :
    /\ world # 0
    /\ Read("getPlayerState", [playerId |-> playerId],
            GetPlayerState(MachineState, playerId))
    /\ UNCHANGED kept

DoGetEntity ==
  \E entityId \in ViewEntities :
    /\ world # 0
    /\ Read("getEntity", [entityId |-> entityId], GetEntity(MachineState, entityId))
    /\ UNCHANGED kept

\* executeAction; the caller drops the list it kept when the call succeeds
DoViewExecute ==
  \E i \in 1 .. Len(ViewCalls) :
    /\ world # 0
    /\ ExecuteStep(ViewCalls[i])
    /\ kept' = IF last'.error = NoError /\ last'.result.success
               THEN NothingKept
               ELSE IF kept.seen /\ kept.stage = "first"
               THEN [kept EXCEPT !.stage = "failed"]
               ELSE kept

InitView ==
  \E energy \in ViewEnergies, health \in ViewHealths,
     inventory \in ViewInventories, location \in ViewLocations :
    LET w == ViewWorld(energy, health, inventory, location)
        engine == NewEngine([EmptyHeap EXCEPT ![1] = w], 1)
    IN /\ heap = engine.heap
       /\ orig = [ref |-> 1, copy |-> w]
       /\ cw = 0
       /\ transaction = engine.tx
       /\ world = engine.world
       /\ entityMap = engine.entityMap
       /\ last = [op |-> "new", input |-> NoResult, error |-> NoError, ret |-> 0,
                  result |-> NoResult]
       /\ tmCalls = <<>>
       /\ kept = NothingKept
       /\ NoService

NextView ==
  \/ DoGenerateValidActions
  \/ DoGetPlayerState
  \/ DoGetEntity
  \/ DoViewExecute

SpecView == InitView /\ [][NextView]_vars

-----------------------------------------------------------------------------
(* A caller of one ActionEngine in a world with things to take, drop and   *)
(* use and somebody to talk to.                                            *)

ItemsWorld == MkWorld(<<Tavern, Forest, Hero(<<>>), Bartender, Potion, Key>>)

ItemsInputs ==
  << Call("player", TargetAction("TAKE_ITEM", "potion", "Pick up Health Potion", 0), 1),
     Call("player", TargetAction("DROP_ITEM", "potion", "Drop Health Potion", 0), 1),
     Call("player", TargetAction("USE_ITEM", "potion", "Use Health Potion", 0), 1),
     Call("player", TargetAction("TAKE_ITEM", "key", "Pick up Rusty Key", 0), 1),
     Call("player", TargetAction("USE_ITEM", "key", "Use Rusty Key", 0), 1),
     Call("player", TargetAction("TALK", "npc", "Talk to Bartender", 50), 2),
     Call("player", TargetAction("EXAMINE", "npc", "Examine Bartender", 0), 1),
     Call("player", PlainAction("WAIT", "Wait and observe", 0), 1),
     Call("player", PlainAction("EXPLORE", "Explore", 50), 1),
     Call("player", TargetAction("MOVE", "forest", "Travel to Dark Forest", 0), 1),
     Call("player", TargetAction("MOVE", "tavern", "Travel to The Tavern", 0), 1) >>

DoItemsAction ==
  \E i \in 1 .. Len(ItemsInputs) :
    /\ world # 0
    /\ ExecuteCall(ItemsInputs[i])

InitItems ==
  LET engine == NewEngine([EmptyHeap EXCEPT ![1] = ItemsWorld], 1) IN
    /\ heap = engine.heap
    /\ orig = [ref |-> 1, copy |-> ItemsWorld]
    /\ cw = 0
    /\ transaction = engine.tx
    /\ world = engine.world
    /\ entityMap = engine.entityMap
    /\ last = [op |-> "new", input |-> NoResult, error |-> NoError, ret |-> 0,
               result |-> NoResult]
    /\ tmCalls = <<>>
    /\ kept = NoResult
    /\ NoService

NextItems == DoItemsAction

SpecItems == InitItems /\ [][NextItems]_vars

-----------------------------------------------------------------------------
(* A caller that plays one round on an engine: it builds the engine from a *)
(* world of a family around the thresholds of generateValidActions, asks   *)
(* for the player's actions and passes one of them, as it got it, to       *)
(* executeAction.  In every world of the family the ids are all different, *)
(* every connection leads to a Place and the inventory lists Items only;   *)
(* an item the inventory lists may still lie in the tavern.                *)

OfferWorld(energy, health, inventory, location, potionAt) ==
  MkWorld(<<Tavern, Forest, LockedRoom,
            Person("player", "Hero", location, health, energy, inventory),
            Bartender,
            [Potion EXCEPT !.location = IF Includes(inventory, "potion")
                                        THEN potionAt ELSE "tavern"],
            [Key EXCEPT !.location = HeldOrAt("key", inventory, "forest")]>>)

DoAskOffers ==
  \E actions \in {GenerateValidActions(MachineState, "player")} :
    /\ world # 0
    /\ kept.stage = "none"
    /\ Read("generateValidActions", [playerId |-> "player"], actions)
    /\ kept' = [stage |-> "asked", actions |-> actions]

DoTakeOffer ==
  \E turn \in Turns :
    /\ world # 0
    /\ kept.stage = "asked"
    /\ \E i \in 1 .. Len(kept.actions) :
         ExecuteStep(Call("player", kept.actions[i], turn))
    /\ kept' = [kept EXCEPT !.stage = "taken"]

InitOffer ==
  \E energy \in {0, 1, 2, 4, 5, 10, 11, 100}, health \in {49, 50},
     inventory \in {<<>>, <<"potion">>, <<"potion", "key">>},
     location \in {"tavern", "forest", "locked_room"},
     potionAt \in {"tavern", "player"} :
    LET w == OfferWorld(energy, health, inventory, location, potionAt)
        engine == NewEngine([EmptyHeap EXCEPT ![1] = w], 1)
    IN /\ heap = engine.heap
       /\ orig = [ref |-> 1, copy |-> w]
       /\ cw = 0
       /\ transaction = engine.tx
       /\ world = engine.world
       /\ entityMap = engine.entityMap
       /\ last = [op |-> "new", input |-> NoResult, error |-> NoError, ret |-> 0,
                  result |-> NoResult]
       /\ tmCalls = <<>>
       /\ kept = [stage |-> "none"]
       /\ NoService

NextOffer == DoAskOffers \/ DoTakeOffer

SpecOffer == InitOffer /\ [][NextOffer]_vars

-----------------------------------------------------------------------------
(* The GameService (game-service.ts) over one session of the               *)
(* KvSessionManager.  The store hands out and takes in values: what a call *)
(* loaded is its own copy until it saves it.  Every await of a call is a   *)
(* point where another client's call may run; the injected services (world *)
(* generator, discovery generator, narrator) answer with one of a few      *)
(* values, the action selector with the first nine as the mock does.       *)

Clients == {"a", "b"}
Idle == [pc |-> "idle"]

\* validateWorld(world).valid for a world object with an entities array
ValidateWorld(w) ==
  LET entities == w.entities
      n == Len(entities)
      ids(type) == {entities[i].id : i \in {j \in 1 .. n : entities[j].type = type}}
      placeIds == ids("place")
      entityMap_ == BuildEntityMap(entities)
      next(S) ==
        S \cup UNION {IF id \in DOMAIN entityMap_
                           /\ "connections" \in DOMAIN entities[entityMap_[id]]
                        THEN DOMAIN entities[entityMap_[id]].connections
                        ELSE {} : id \in S}
      reach[k \in 0 .. n + 1] ==
        IF k = 0 THEN {w.starting_location} ELSE next(reach[k - 1])
  IN /\ w.world_name # ""
     /\ w.world_description # ""
     /\ w.starting_location # ""
     /\ \A i, j \in 1 .. n : entities[i].id = entities[j].id => i = j
     /\ w.starting_location \in placeIds
     /\ \A i \in 1 .. n :
          LET e == entities[i] IN
            CASE e.type = "person" ->
                   /\ "location" \in DOMAIN e /\ e.location \in placeIds
                   /\ "health" \in DOMAIN e /\ e.health >= 0 /\ e.health <= 100
                   /\ "energy" \in DOMAIN e /\ e.energy >= 0 /\ e.energy <= 100
                   /\ "inventory" \in DOMAIN e
              [] e.type = "place" ->
                   /\ "connections" \in DOMAIN e
                   /\ \A t \in DOMAIN e.connections :
                        /\ t \in placeIds
                        /\ e.connections[t].requires_item # "" =>
                             e.connections[t].requires_item \in ids("item")
              [] e.type = "item" ->
                   /\ "location" \in DOMAIN e /\ e.location # ""
                   /\ e.location \in placeIds \cup ids("person")
              [] OTHER -> TRUE
     /\ \E i \in 1 .. n :
          entities[i].type = "person" /\ entities[i].location = w.starting_location
     /\ placeIds \subseteq reach[n + 1]

\* the worlds the world generator answers with: the test world of the
\* service tests with a poison like that of the game-over test in the
\* player's hands, which takes two draughts to kill, the invalid world of the retry test, and a world with a place
\* that no connection reaches
GameWorld ==
  MkWorld(<<Place("tavern", "The Tavern", [t \in {"forest"} |-> NoReq]),
            Place("forest", "Dark Forest", [t \in {"tavern"} |-> NoReq]),
            Person("player", "Hero", "tavern", 100, 100, <<"poison">>),
            Item("poison", "Poison", "player", TRUE, FALSE,
                 [health |-> -60, energy |-> 0])>>)
GeneratedWorlds ==
  << Null,
     GameWorld,
     [world_name |-> "Bad World", world_description |-> "Invalid",
      starting_location |-> "nowhere", entities |-> <<>>],
     MkWorld(<<Place("tavern", "The Tavern", [t \in {"tavern"} |-> NoReq]),
               Place("island", "Island", [t \in {"tavern"} |-> NoReq]),
               Person("player", "Hero", "tavern", 100, 100, <<>>)>>) >>

\* what the discovery generator answers with: nothing, an item, a place
Discoveries ==
  << Null,
     [id |-> "treasure", name |-> "Treasure Chest", type |-> "item",
      location |-> "tavern", usable |-> FALSE, consumable |-> FALSE],
     Place("cave", "Cave", [t \in {"tavern"} |-> NoReq]) >>

Message(role, content) == [role |-> role, content |-> content]
SystemPrompt(w) ==
  Message("system",
          "You are the narrator for an interactive text adventure game set in: "
            \o w.world_description)

\* the engine of a call: new ActionEngine(world) and what its methods give
EngineFor(w) == NewEngine([EmptyHeap EXCEPT ![1] = w], 1)

\* selectInterestingActions of the mock: actions.slice(0, 9)
SelectInterestingActions(actions) == SubSeq(actions, 1, Min(9, Len(actions)))

\* what the clients keep count of: the performAction calls they made, the
\* ones that returned, and the energy the engine took for them
EnergyIn(w, playerId) == w.entities[FindIndex(w.entities, playerId)].energy

\* a GameService call returned or threw
ServiceReturned(op, client, input, error, result) ==
  /\ last' = [op |-> op, client |-> client, input |-> input, error |-> error,
              ret |-> 0, result |-> result]
  /\ UNCHANGED <<heap, transaction, world, entityMap, cw, orig, tmCalls>>

\* initializeGame up to its first await of generateWorld: createSession
InitializeGame(c) ==
  /\ running[c] = Idle
  /\ session = NoSession
  /\ session' = [exists |-> TRUE, generatedWorld |-> Null, openingScene |-> "",
                 currentGameState |-> Null, currentTurn |-> 0]
  /\ running' = [running EXCEPT ![c] = [op |-> "initializeGame", pc |-> "generate",
                                        attempts |-> 1,
                                        generatedWorld |-> Undefined]]
  /\ UNCHANGED <<heap, transaction, world, entityMap, cw, orig, tmCalls, last, kept>>

\* one round of the while loop after generateWorld answered, and the test
\* of the loop: the world is taken, the call throws, or the loop goes round
AfterGenerateWorldEager(attempts, generatedWorld) ==
  IF generatedWorld # Null /\ ValidateWorld(generatedWorld) THEN "world"
  ELSE IF attempts = 3
  THEN "Failed to generate a valid world after multiple attempts"
  ELSE "again"

AfterGenerateWorld(attempts, generatedWorld) ==
  IF generatedWorld # Null /\ ValidateWorld(generatedWorld) THEN "world"
  ELSE IF generatedWorld # Null /\ attempts = 3
  THEN "Failed to generate a valid world after multiple attempts"
  ELSE IF attempts < 3 THEN "again"
  ELSE "Unable to generate world"

\* generateWorld answers: the body of the while loop and, when the loop is
\* left, the throw or updateWorld
GenerateWorldReturns(c) ==
  \E i \in 1 .. Len(GeneratedWorlds) :
    LET generatedWorld == GeneratedWorlds[i]
        attempts == running[c].attempts
        then == AfterGenerateWorld(attempts, generatedWorld)
    IN /\ running[c].pc = "generate"
       /\ IF then = "world"
          THEN /\ session' = [session EXCEPT !.generatedWorld = generatedWorld]
               /\ running' = [running EXCEPT ![c].pc = "scene",
                                             ![c].generatedWorld = generatedWorld]
               /\ UNCHANGED last
               /\ UNCHANGED <<heap, transaction, world, entityMap, cw, orig, tmCalls>>
          ELSE IF then = "again"
          THEN /\ running' = [running EXCEPT ![c].attempts = attempts + 1,
                                             ![c].generatedWorld = generatedWorld]
               /\ UNCHANGED <<session, last>>
               /\ UNCHANGED <<heap, transaction, world, entityMap, cw, orig, tmCalls>>
          ELSE /\ ServiceReturned("initializeGame", c,
                    [attempts |-> attempts, generatedWorld |-> generatedWorld],
                    then, NoResult)
               /\ running' = [running EXCEPT ![c] = Idle]
               /\ UNCHANGED session
       /\ UNCHANGED kept

\* generateOpeningScene answers: updateOpeningScene and the result
OpeningSceneReturns(c) ==
  /\ running[c].pc = "scene"
  /\ session' = [session EXCEPT !.openingScene = "Welcome to the test world!"]
  /\ running' = [running EXCEPT ![c] = Idle]
  /\ ServiceReturned("initializeGame", c, [attempts |-> running[c].attempts],
                     NoError,
                     [world |-> session.generatedWorld,
                      openingScene |-> "Welcome to the test world!"])
  /\ UNCHANGED kept

\* selectCharacter, for a session on which no game runs yet
SelectCharacter(c) ==
  \E characterId \in {"player", "poison"} :
    LET w == session.generatedWorld
        isCharacter == \E i \in 1 .. Len(w.entities) :
                         /\ w.entities[i].id = characterId
                         /\ w.entities[i].type = "person"
                         /\ w.entities[i].location = w.starting_location
        messageHistory ==
          <<SystemPrompt(w)>>
            \o (IF session.openingScene # ""
                THEN <<Message("assistant", session.openingScene)>> ELSE <<>>)
        engine == EngineFor(w)
    IN /\ running[c] = Idle
       /\ session.exists
       /\ session.currentGameState = Null
       /\ IF session.generatedWorld = Null
          THEN /\ ServiceReturned("selectCharacter", c, [characterId |-> characterId],
                                  "Invalid session or world not generated", NoResult)
               /\ UNCHANGED <<session, kept>>
          ELSE IF ~isCharacter
          THEN /\ ServiceReturned("selectCharacter", c, [characterId |-> characterId],
                                  "Invalid character selection", NoResult)
               /\ UNCHANGED <<session, kept>>
          ELSE /\ session' = [session EXCEPT
                    !.currentGameState = [world |-> w, playerId |-> characterId,
                                          currentTurn |-> 1,
                                          messageHistory |-> messageHistory],
                    !.currentTurn = 1]
               /\ kept' = [started |-> 0, completed |-> 0, spent |-> 0]
               /\ ServiceReturned("selectCharacter", c, [characterId |-> characterId],
                    NoError,
                    [gameState |-> GetPlayerState(engine, characterId),
                     availableActions |->
                       SelectInterestingActions(
                         GenerateValidActions(engine, characterId))])
       /\ UNCHANGED running

\* performAction up to its first await after getSession: the engine's
\* executeAction on the loaded world
PerformAction(c, action) ==
  /\ running[c] = Idle
  /\ session.exists
  /\ IF session.currentGameState = Null
     THEN /\ ServiceReturned("performAction", c, [action |-> action],
                             "No active game found", NoResult)
          /\ UNCHANGED <<running, kept>>
     ELSE LET gameState == session.currentGameState
              out == ExecuteAction(EngineFor(gameState.world), gameState.playerId,
                                   action, gameState.currentTurn)
          IN /\ running' = [running EXCEPT ![c] =
                  [op |-> "performAction",
                   pc |-> IF action.type = "EXPLORE" THEN "discover" ELSE "narrate",
                   action |-> action,
                   gameState |-> gameState,
                   success |-> out.result.success,
                   updatedWorld |-> out.s.heap[out.result.world],
                   changes |-> out.result.changes,
                   discovery |-> Undefined,
                   narration |-> ""]]
             /\ kept' = [kept EXCEPT
                  !.started = @ + 1,
                  !.spent = @ + EnergyIn(gameState.world, gameState.playerId)
                              - EnergyIn(out.s.heap[out.result.world],
                                         gameState.playerId)]
             /\ UNCHANGED last
  /\ UNCHANGED <<heap, transaction, world, entityMap, cw, orig, tmCalls, session>>

\* the place where the player is gains a connection to a discovered place
WithConnection(entities, placeId, targetId) ==
  [i \in 1 .. Len(entities) |->
     IF i = FindIndex(entities, placeId) /\ "connections" \in DOMAIN entities[i]
     THEN [entities[i] EXCEPT !.connections =
             [t \in DOMAIN @ \cup {targetId} |-> IF t = targetId THEN NoReq ELSE @[t]]]
     ELSE entities[i]]

\* generateDiscovery answers: the discovery is added to the world and to
\* the changes
DiscoveryReturns(c) ==
  \E i \in 1 .. Len(Discoveries) :
    LET generatedDiscovery == Discoveries[i]
        p == running[c]
        added == Append(p.updatedWorld.entities, generatedDiscovery)
        player == added[FindIndex(added, p.gameState.playerId)]
    IN /\ p.pc = "discover"
       /\ running' = [running EXCEPT ![c] =
            IF generatedDiscovery = Null
            THEN [p EXCEPT !.pc = "narrate",
                           !.changes = Append(@,
                             "You search thoroughly but find nothing new this time.")]
            ELSE [p EXCEPT
                   !.pc = "narrate",
                   !.updatedWorld.entities =
                     IF generatedDiscovery.type = "place"
                     THEN WithConnection(added, player.location, generatedDiscovery.id)
                     ELSE added,
                   !.changes = Append(@,
                     IF generatedDiscovery.type = "place"
                     THEN "You discovered a new location: "
                            \o generatedDiscovery.name \o "!"
                     ELSE IF generatedDiscovery.type = "item"
                     THEN "You found " \o generatedDiscovery.name \o "!"
                     ELSE "You encountered " \o generatedDiscovery.name \o "!"),
                   !.discovery = generatedDiscovery]]
       /\ UNCHANGED <<heap, transaction, world, entityMap, cw, orig, tmCalls, last,
                      kept, session>>

\* the last 10 entries behind the first when there are more than 20
LimitHistoryOldest(messageHistory) ==
  IF Len(messageHistory) > 20 THEN SubSeq(messageHistory, 1, 11)
  ELSE messageHistory

LimitHistory(messageHistory) ==
  IF Len(messageHistory) > 20
  THEN <<messageHistory[1]>>
         \o SubSeq(messageHistory, Len(messageHistory) - 9, Len(messageHistory))
  ELSE messageHistory

\* narrateAction answers with one of the narrations: the history, the turn
\* and the world of the call's game state, up to the await of updateGameState
NarratorReturns(c, narrations) ==
  \E narration \in narrations :
    LET p == running[c] IN
      /\ p.pc = "narrate"
      /\ running' = [running EXCEPT ![c] =
           [p EXCEPT !.pc = "save",
                     !.narration = narration,
                     !.gameState =
                       [world |-> p.updatedWorld,
                        playerId |-> p.gameState.playerId,
                        currentTurn |-> p.gameState.currentTurn + 1,
                        messageHistory |->
                          LimitHistory(
                            p.gameState.messageHistory
                              \o <<Message("user", "Player action: "
                                                     \o p.action.description),
                                   Message("assistant", narration)>>)]]]
      /\ UNCHANGED <<heap, transaction, world, entityMap, cw, orig, tmCalls, last,
                     kept, session>>

\* what performAction returns for the call p once its world is stored: the
\* player's state, the game-over test and the selector's choice
ActionResultOffering(p) ==
  LET updatedEngine == EngineFor(p.updatedWorld)
      playerState == GetPlayerState(updatedEngine, p.gameState.playerId)
  IN [success |-> p.success,
      narration |-> p.narration,
      gameState |-> playerState,
      availableActions |->
        SelectInterestingActions(
          GenerateValidActions(updatedEngine, p.gameState.playerId)),
      discovery |-> p.discovery,
      gameOver |-> playerState.health = 0,
      gameOverReason |->
        IF playerState.health = 0
        THEN "You have died. Your adventure ends here." ELSE ""]

ActionResult(p) ==
  LET updatedEngine == EngineFor(p.updatedWorld)
      playerState == GetPlayerState(updatedEngine, p.gameState.playerId)
      gameOver == playerState.health = 0
  IN [success |-> p.success,
      narration |-> p.narration,
      gameState |-> playerState,
      availableActions |->
        IF gameOver THEN <<>>
        ELSE SelectInterestingActions(
               GenerateValidActions(updatedEngine, p.gameState.playerId)),
      discovery |-> p.discovery,
      gameOver |-> gameOver,
      gameOverReason |->
        IF gameOver THEN "You have died. Your adventure ends here." ELSE ""]

\* updateGameState stores the call's game state; then the call returns its
\* result, or throws when the player is not in the world it stored
GameStateSaved(c) ==
  LET p == running[c] IN
    /\ p.pc = "save"
    /\ session' = [session EXCEPT !.currentGameState = p.gameState,
                                  !.currentTurn = p.gameState.currentTurn]
    /\ running' = [running EXCEPT ![c] = Idle]
    /\ kept' = [kept EXCEPT !.completed = @ + 1]
    /\ IF GetPlayerState(EngineFor(p.updatedWorld), p.gameState.playerId) = Null
       THEN ServiceReturned("performAction", c, [action |-> p.action],
                            "Failed to get player state", NoResult)
       ELSE ServiceReturned("performAction", c, [action |-> p.action], NoError,
                            ActionResult(p))

\* the actions the clients send
ServiceInputs ==
  << PlainAction("EXPLORE", "Explore", 4),
     PlainAction("EXPLORE", "Explore", 120),
     TargetAction("USE_ITEM", "poison", "Use poison", 0),
     PlainAction("WAIT", "Wait", 0) >>

\* the performAction calls the clients make in a run
MaxCalls == 2

DoInitializeGame == \E c \in Clients : /\ world = 0 /\ InitializeGame(c)
DoGenerateWorldReturns == \E c \in Clients : /\ world = 0 /\ GenerateWorldReturns(c)
DoOpeningSceneReturns == \E c \in Clients : /\ world = 0 /\ OpeningSceneReturns(c)
DoSelectCharacter == \E c \in Clients : /\ world = 0 /\ SelectCharacter(c)
DoPerformAction ==
  \E c \in Clients, i \in 1 .. Len(ServiceInputs) :
    /\ world = 0
    /\ (session.exists /\ session.currentGameState # Null) => kept.started < MaxCalls
    /\ PerformAction(c, ServiceInputs[i])
DoDiscoveryReturns == \E c \in Clients : /\ world = 0 /\ DiscoveryReturns(c)
DoNarratorReturns ==
  \E c \in Clients : /\ world = 0 /\ NarratorReturns(c, {"You performed an action."})
DoGameStateSaved == \E c \in Clients : /\ world = 0 /\ GameStateSaved(c)

InitService ==
  /\ heap = EmptyHeap
  /\ orig = [ref |-> 0, copy |-> NoResult]
  /\ cw = 0
  /\ transaction = NoTransaction
  /\ world = 0
  /\ entityMap = <<>>
  /\ last = [op |-> "new", client |-> "", input |-> NoResult, error |-> NoError,
             ret |-> 0, result |-> NoResult]
  /\ tmCalls = <<>>
  /\ kept = NoResult
  /\ session = NoSession
  /\ running = [c \in Clients |-> Idle]

NextService ==
  \/ DoInitializeGame
  \/ DoGenerateWorldReturns
  \/ DoOpeningSceneReturns
  \/ DoSelectCharacter
  \/ DoPerformAction
  \/ DoDiscoveryReturns
  \/ DoNarratorReturns
  \/ DoGameStateSaved

SpecService == InitService /\ [][NextService]_vars

\* A long game: the clients only wait, each call made when the one before
\* has returned, and the narrator answers with one of two texts, for as many
\* calls as it takes the history to be cut.
MaxHistoryCalls == 11

DoWait ==
  \E c \in Clients :
    /\ world = 0
    /\ (session.exists /\ session.currentGameState # Null) =>
         kept.started < MaxHistoryCalls
    /\ \A d \in Clients : running[d] = Idle
    /\ PerformAction(c, PlainAction("WAIT", "Wait", 0))
DoNarratorReturnsEither ==
  \E c \in Clients :
    /\ world = 0
    /\ NarratorReturns(c, {"You performed an action.", "Time passes."})
NextHistory ==
  \/ DoInitializeGame
  \/ DoGenerateWorldReturns
  \/ DoOpeningSceneReturns
  \/ DoSelectCharacter
  \/ DoWait
  \/ DoNarratorReturnsEither
  \/ DoGameStateSaved

SpecHistory == InitService /\ [][NextHistory]_vars

----------------------------------------------------------------------------
(* The TransactionManager with a caller whose changes can fail in          *)
(* applyChange: a write to an entity the world does not hold, a write      *)
(* below a field the entity does not have, and a write to an entity that   *)
(* an earlier change of the transaction removed.                           *)

FailingChangeInputs ==
  << ChangeInput("player", <<"energy">>, Num(100), Num(70), "Energy decreased"),
     ChangeInput("ghost", <<"energy">>, Null, Num(5), "Ghost stirred"),
     ChangeInput("player", <<"stats", "mana">>, Null, Num(5), "Mana gained"),
     ChangeInput("potion", RemoveEntityField, Obj(Potion), Null, "Potion consumed"),
     ChangeInput("potion", <<"location">>, Str("tavern"), Str("forest"), "Potion moved") >>

TMRecordFailing ==
  \E i \in 1 .. Len(FailingChangeInputs) :
    /\ cw # 0
    /\ transaction.exists => Len(transaction.changes) < MaxChanges
    /\ Returned("recordChange", NoResult, RecordChange(MachineState, FailingChangeInputs[i]))

NextTMF == TMStart \/ TMRecordFailing \/ TMCommit \/ TMRollback

SpecTMF == InitTM /\ [][NextTMF]_vars

----------------------------------------------------------------------------
(* Claims about the TransactionManager with a caller that writes to the    *)
(* worlds it holds, checked under SpecTMM.                                 *)

\* C11: rollback returns a new World deep-equal to the source world as it
\* was when startTransaction was called, whatever was recorded since and
\* whatever the caller wrote since to the source world or to a world an
\* earlier call returned; the snapshot itself keeps that content.
C11_RollbackStep ==
  (last'.op = "rollback" /\ last'.error = NoError) =>
    /\ last'.ret \notin {0, cw, transaction.preSnapshot.world}
    /\ heap'[last'.ret] = kept
C11_RollbackRestores ==
  /\ [](transaction.exists => heap[transaction.preSnapshot.world] = kept)
  /\ [][C11_RollbackStep]_vars

\* C11 witness: rollback returned the world as it was at the start, after
\* changes were recorded and the caller had written to the source world
C11_Witness ==
  /\ last.op = "rollback"
  /\ last.error = NoError
  /\ Len(transaction.changes) = 2
  /\ heap[cw].world_name = "Modified"
  /\ kept.world_name = "Test World"
  /\ heap[last.ret] = kept

\* C31 (the claim as stated): the world commit returns is the world of the
\* transaction's snapshot with the recorded changes applied in order,
\* whatever world the caller hands to commit and whatever the caller wrote
\* to it since startTransaction.
C31_CommitStep ==
  (last'.op = "commit" /\ last'.error = NoError) =>
    LET from == transaction.preSnapshot.world
        applied == ApplyChanges(heap, from, transaction.changes)
    IN /\ applied.error = NoError
       /\ heap'[last'.ret] = applied.heap[from]
C31_CommitFromSnapshot == [][C31_CommitStep]_vars

----------------------------------------------------------------------------
(* Claims about the ActionEngine checked under SpecVitals.                 *)

\* the entity with this id in a world, Undefined when there is none
\* the player of a call, as the engine's map resolves it before the call
Caller(call) == MapGet(MachineState, call.playerId)

EntityOf(w, id) ==
  IF FindIndex(w.entities, id) = 0 THEN Undefined
  ELSE w.entities[FindIndex(w.entities, id)]

InRange(n) == 0 <= n /\ n <= 100

\* C12: from a world where the player's health and energy are within
\* [0, 100], after any sequence of executeAction calls (energy costs, REST,
\* items whose effects add or take more than the range holds) the player's
\* health and energy are within [0, 100] in the engine's world, in every
\* World object a call returned, and in what getPlayerState reports.
C12_VitalsInRange ==
  /\ \A r \in Refs :
       heap[r] # NoObj =>
         /\ InRange(EntityOf(heap[r], "player").health)
         /\ InRange(EntityOf(heap[r], "player").energy)
  /\ InRange(GetPlayerState(MachineState, "player").health)
  /\ InRange(GetPlayerState(MachineState, "player").energy)

\* C12 witness: the poison, which takes 200 health and 150 energy, was used
\* by a player with 100 health and 100 energy, and left both at 0
C12_Witness ==
  /\ last.op = "executeAction"
  /\ last.result.success
  /\ last.input.action.target = "poison"
  /\ EntityOf(heap[5], "player").health = 100
  /\ EntityOf(heap[5], "player").energy = 100
  /\ GetPlayerState(MachineState, "player").health = 0
  /\ GetPlayerState(MachineState, "player").energy = 0

\* the error of a result, "" when it has none
ResultError(r) == IF "error" \in DOMAIN r THEN r.error ELSE ""

NotEnoughEnergy(cost, energy) ==
  "Not enough energy. Need " \o ToString(cost) \o ", have "
    \o ToString(energy) \o "."

\* the action records an energy change of its own after the cost's
SetsEnergy(call) ==
  \/ call.action.type = "REST"
  \/ /\ call.action.type = "USE_ITEM"
     /\ MapGet(MachineState, call.action.target) # Undefined
     /\ "effects" \in DOMAIN MapGet(MachineState, call.action.target)
     /\ MapGet(MachineState, call.action.target).effects.energy # 0

\* a call by a person whose energy is below the cost fails with the exact
\* message, records no change and leaves the world, and the energy, as it was
UnderCostStep(call) ==
  Caller(call).energy < call.action.energyCost =>
    /\ last'.result.success = FALSE
    /\ ResultError(last'.result)
         = NotEnoughEnergy(call.action.energyCost, Caller(call).energy)
    /\ last'.result.changes = <<>>
    /\ \A i \in 1 .. Len(tmCalls') : tmCalls'[i].op # "recordChange"
    /\ heap'[world'] = heap[world]
    /\ EntityOf(heap'[world'], call.playerId).energy = Caller(call).energy

\* C14: for every action and person, energy below the cost gives the failure
\* 'Not enough energy. Need {cost}, have {energy}.', no recorded change and
\* an unchanged energy; energy equal to the cost is not rejected on energy
\* grounds, and when the call succeeds and the action records no energy
\* change of its own (it is no REST and no USE_ITEM of an item with an
\* energy effect) the resulting energy is 0.
C14_EnergyStep ==
  (/\ last'.op = "executeAction"
   /\ Caller(last'.input) # Undefined
   /\ Caller(last'.input).type = "person") =>
    LET call == last'.input IN
      /\ UnderCostStep(call)
      /\ Caller(call).energy = call.action.energyCost =>
           /\ ResultError(last'.result)
                # NotEnoughEnergy(call.action.energyCost, Caller(call).energy)
           /\ (last'.result.success /\ ~SetsEnergy(call)) =>
                EntityOf(heap'[world'], call.playerId).energy = 0
C14_EnergyCost == [][C14_EnergyStep]_vars

\* C14 as stated: as above, but with energy equal to the cost every
\* successful action leaves the energy at 0.
C14_AsStatedStep ==
  (/\ last'.op = "executeAction"
   /\ Caller(last'.input) # Undefined
   /\ Caller(last'.input).type = "person") =>
    LET call == last'.input IN
      /\ UnderCostStep(call)
      /\ Caller(call).energy = call.action.energyCost =>
           /\ ResultError(last'.result)
                # NotEnoughEnergy(call.action.energyCost, Caller(call).energy)
           /\ last'.result.success =>
                EntityOf(heap'[world'], call.playerId).energy = 0
C14_AsStated == [][C14_AsStatedStep]_vars

\* C14 witness: a WAIT or MOVE with a positive cost succeeded and left the
\* player, who had exactly that much energy, with none
C14_Witness ==
  /\ last.op = "executeAction"
  /\ last.result.success
  /\ last.input.action.type \in {"WAIT", "MOVE"}
  /\ last.input.action.energyCost > 0
  /\ GetPlayerState(MachineState, "player").energy = 0

\* a call was rejected for its cost: EXPLORE at 120 by a player who has less
C14_WitnessRejected ==
  /\ last.op = "executeAction"
  /\ last.result.success = FALSE
  /\ last.input.action.type = "EXPLORE"

\* C20: a successful MOVE with cost c by a player with energy e sets the
\* player's location to the target and the player's energy to max(0, e - c)
\* and changes no other entity and no other field; the world of the result
\* is that world.
C20_MoveStep ==
  (/\ last'.op = "executeAction"
   /\ last'.input.action.type = "MOVE"
   /\ last'.result.success) =>
    LET call == last'.input
        before == heap[world]
        after == heap'[world']
        i == FindIndex(before.entities, call.playerId)
    IN /\ i # 0
       /\ last'.result.world = world'
       /\ [after EXCEPT !.entities = <<>>] = [before EXCEPT !.entities = <<>>]
       /\ Len(after.entities) = Len(before.entities)
       /\ \A j \in 1 .. Len(before.entities) :
            j # i => after.entities[j] = before.entities[j]
       /\ after.entities[i]
            = [before.entities[i] EXCEPT
                 !.location = call.action.target,
                 !.energy = Max(0, before.entities[i].energy
                                     - call.action.energyCost)]
C20_MoveSetsLocationAndEnergy == [][C20_MoveStep]_vars

\* C20 witness: the player, at full energy in the tavern, moved to the
\* forest for 20 and is there with 80
C20_Witness ==
  /\ last.op = "executeAction"
  /\ last.input.action.type = "MOVE"
  /\ last.input.action.energyCost = 20
  /\ last.result.success
  /\ GetPlayerState(MachineState, "player").currentLocation = "forest"
  /\ GetPlayerState(MachineState, "player").energy = 80

-----------------------------------------------------------------------------
(* Claims about the ActionEngine checked under SpecItems, and C23 and C24  *)
(* under SpecVitals.  A step is the call last' names; unprimed variables   *)
(* are the state before it.  The world the engine had before its last      *)
(* successful call is in cell 5.                                           *)

\* the engine with the given fields, for the read methods
EngineOf(h, w, map) ==
  [heap |-> h, tx |-> NoTransaction, calls |-> <<>>, world |-> w, entityMap |-> map]

\* the step is a successful executeAction of the type
Succeeds(type) ==
  /\ last'.op = "executeAction"
  /\ last'.error = NoError
  /\ last'.input.action.type = type
  /\ last'.result.success

\* the last call was a successful executeAction of the type
Succeeded(type) ==
  /\ last.op = "executeAction"
  /\ last.error = NoError
  /\ last.input.action.type = type
  /\ last.result.success

\* C21: a successful TAKE_ITEM sets the item's location to the player's id
\* and appends the item's id to the player's inventory; a successful
\* DROP_ITEM sets the item's location to the player's current Place and
\* removes the item's id from the inventory; a DROP_ITEM right after the
\* TAKE_ITEM of the same item gives back the item's location and the
\* inventory the world had before the TAKE_ITEM.
C21_TakeDropStep ==
  LET player == Caller(last'.input)
      id == last'.input.action.target
      after == heap'[world']
  IN /\ Succeeds("TAKE_ITEM") =>
          /\ EntityOf(after, id).location = player.id
          /\ EntityOf(after, player.id).inventory = Append(player.inventory, id)
     /\ Succeeds("DROP_ITEM") =>
          /\ EntityOf(after, id).location = player.location
          /\ ~Includes(EntityOf(after, player.id).inventory, id)
          /\ EntityOf(after, player.id).inventory = Without(player.inventory, id)
     /\ (/\ Succeeds("DROP_ITEM")
         /\ Succeeded("TAKE_ITEM")
         /\ last.input.action.target = id) =>
          /\ EntityOf(after, id).location = EntityOf(heap[5], id).location
          /\ EntityOf(after, player.id).inventory
               = EntityOf(heap[5], player.id).inventory
C21_TakeDrop == [][C21_TakeDropStep]_vars

\* C21 witness: the potion, taken in the tavern, was dropped in the forest
\* by a player who still holds the key
C21_Witness ==
  /\ Succeeded("DROP_ITEM")
  /\ EntityOf(heap[world], "potion").location = "forest"
  /\ EntityOf(heap[world], "player").location = "forest"
  /\ EntityOf(heap[world], "player").inventory = <<"key">>

\* no entity of the world has the id
Absent(w, id) == \A i \in 1 .. Len(w.entities) : w.entities[i].id # id

\* C22: a successful USE_ITEM of an item with consumable = true removes the
\* item's id from the player's inventory and the item's entity from the
\* world, and getEntity of the item's id on the engine then returns
\* undefined; with consumable = false the item stays in the inventory and
\* in the world.
C22_UseItemStep ==
  Succeeds("USE_ITEM") =>
    LET player == Caller(last'.input)
        id == last'.input.action.target
        item == EntityOf(heap[world], id)
        after == heap'[world']
        found == GetEntity(EngineOf(heap', world', entityMap'), id)
    IN IF item.consumable
       THEN /\ ~Includes(EntityOf(after, player.id).inventory, id)
            /\ Absent(after, id)
            /\ Len(after.entities) = Len(heap[world].entities) - 1
            /\ found = Undefined
       ELSE /\ Includes(EntityOf(after, player.id).inventory, id)
            /\ EntityOf(after, id) = item
            /\ found = item
C22_UseItemConsumes == [][C22_UseItemStep]_vars

\* C22 witness: the potion was used and is gone from the inventory, which
\* still holds the key, and from the engine
C22_Witness ==
  /\ Succeeded("USE_ITEM")
  /\ last.input.action.target = "potion"
  /\ EntityOf(heap[world], "player").inventory = <<"key">>
  /\ Absent(heap[world], "potion")
  /\ GetEntity(MachineState, "potion") = Undefined

\* the key was used and is still held
C22_WitnessKept ==
  /\ Succeeded("USE_ITEM")
  /\ last.input.action.target = "key"
  /\ Includes(EntityOf(heap[world], "player").inventory, "key")

\* the effects of an item, 0 for one that is not set
EffectOn(item, gauge) ==
  IF "effects" \in DOMAIN item /\ gauge \in DOMAIN item.effects
  THEN item.effects[gauge] ELSE 0

\* the changes of the transaction that write the field
ChangesOf(tx, field) ==
  {i \in 1 .. Len(tx.changes) : tx.changes[i].field = <<field>>}

\* C23: a successful USE_ITEM at cost 0 sets the player's health to
\* min(100, max(0, health + effects.health)) when effects.health is not 0
\* and the player's energy to min(100, max(0, energy + effects.energy))
\* when effects.energy is not 0; an effect that is 0 or absent records no
\* change for its attribute and leaves it as it was.
C23_UseItemStep ==
  (Succeeds("USE_ITEM") /\ last'.input.action.energyCost = 0) =>
    LET player == Caller(last'.input)
        item == EntityOf(heap[world], last'.input.action.target)
        after == EntityOf(heap'[world'], player.id)
        health == EffectOn(item, "health")
        energy == EffectOn(item, "energy")
    IN /\ after.health
            = IF health # 0 THEN Min(100, Max(0, player.health + health))
              ELSE player.health
       /\ after.energy
            = IF energy # 0 THEN Min(100, Max(0, player.energy + energy))
              ELSE player.energy
       /\ Cardinality(ChangesOf(transaction', "health")) = IF health # 0 THEN 1 ELSE 0
       /\ Cardinality(ChangesOf(transaction', "energy")) = IF energy # 0 THEN 1 ELSE 0
C23_UseItemEffects == [][C23_UseItemStep]_vars

\* C23 witness: the tonic, with 20 for health and 0 for energy, was used by
\* a player with 90 health, who has 100 now, and one change was recorded
C23_Witness ==
  /\ Succeeded("USE_ITEM")
  /\ last.input.action.target = "tonic"
  /\ EntityOf(heap[5], "player").health = 90
  /\ EntityOf(heap[world], "player").health = 100
  /\ Len(transaction.changes) = 1

\* the badge, which has no effects, was used and nothing was recorded
C23_WitnessNoEffects ==
  /\ Succeeded("USE_ITEM")
  /\ last.input.action.target = "badge"
  /\ transaction.changes = <<>>

\* the world with the energy of the entity at position i set to n
WithEnergy(w, i, n) ==
  [w EXCEPT !.entities =
     SubSeq(w.entities, 1, i - 1)
       \o <<[w.entities[i] EXCEPT !.energy = n]>>
       \o SubSeq(w.entities, i + 1, Len(w.entities))]

\* C24: a successful REST at cost 0 by a player with energy e sets the
\* player's energy to min(100, e + 70) and changes nothing else.
C24_RestStep ==
  (Succeeds("REST") /\ last'.input.action.energyCost = 0) =>
    LET player == Caller(last'.input)
        i == FindIndex(heap[world].entities, player.id)
    IN /\ EntityOf(heap'[world'], player.id).energy = Min(100, player.energy + 70)
       /\ heap'[world'] = WithEnergy(heap[world], i, Min(100, player.energy + 70))
       /\ heap'[last'.result.world] = heap'[world']
C24_RestRecovers == [][C24_RestStep]_vars

\* C24 witness: a player with no energy rested and has 70
C24_Witness ==
  /\ Succeeded("REST")
  /\ last.input.action.energyCost = 0
  /\ EntityOf(heap[5], "player").energy = 0
  /\ EntityOf(heap[world], "player").energy = 70

\* a player with 50 rested and has 100, not 120
C24_WitnessCapped ==
  /\ Succeeded("REST")
  /\ last.input.action.energyCost = 0
  /\ EntityOf(heap[5], "player").energy = 50
  /\ EntityOf(heap[world], "player").energy = 100

\* the marker field a successful action of the type sets on its target
Marker(type) ==
  IF type = "TALK" THEN {"__conversation__"}
  ELSE IF type = "EXAMINE" THEN {"__examined__"}
  ELSE {}

\* C25: after a successful TALK, EXAMINE, WAIT or EXPLORE the returned
\* world equals the world before the call except for the player's energy,
\* which is max(0, energy - cost), and, for TALK and EXAMINE, the marker
\* field __conversation__ or __examined__ of the target, which is the
\* turn; the entities are the same in number and order, and every other
\* field of every entity, location, health and inventory among them, is as
\* it was.  A WAIT at cost 0 gives an empty list of changes and a world
\* equal to the one before.
C25_QuietStep ==
  (\E type \in {"TALK", "EXAMINE", "WAIT", "EXPLORE"} : Succeeds(type)) =>
    LET call == last'.input
        player == Caller(call)
        before == heap[world]
        after == heap'[last'.result.world]
        marked(e) == IF "target" \in DOMAIN call.action /\ e.id = call.action.target
                     THEN Marker(call.action.type) ELSE {}
    IN /\ last'.result.world = world'
       /\ [after EXCEPT !.entities = <<>>] = [before EXCEPT !.entities = <<>>]
       /\ Len(after.entities) = Len(before.entities)
       /\ \A j \in 1 .. Len(before.entities) :
            LET old == before.entities[j]
                new == after.entities[j]
            IN /\ DOMAIN new = (DOMAIN old) \cup marked(old)
               /\ \A f \in DOMAIN new :
                    new[f] = IF f \in marked(old) THEN call.turn
                             ELSE IF f = "energy" /\ old.id = player.id
                             THEN Max(0, old.energy - call.action.energyCost)
                             ELSE old[f]
       /\ (call.action.type = "WAIT" /\ call.action.energyCost = 0) =>
            /\ last'.result.changes = <<>>
            /\ after = before
C25_QuietActions == [][C25_QuietStep]_vars

\* C25 witness: the player talked to the bartender at cost 50 in turn 2; the
\* bartender carries the marker 2 and the player has 50 energy less
C25_Witness ==
  /\ Succeeded("TALK")
  /\ EntityOf(heap[world], "npc")["__conversation__"] = 2
  /\ "__conversation__" \notin DOMAIN EntityOf(heap[5], "npc")
  /\ EntityOf(heap[5], "player").energy = 100
  /\ EntityOf(heap[world], "player").energy = 50

\* a WAIT at cost 0 succeeded with no change
C25_WitnessWait ==
  /\ Succeeded("WAIT")
  /\ last.result.changes = <<>>

\* the ids of the entities of ItemsWorld and one of none
ItemsIds == {"tavern", "forest", "player", "npc", "potion", "key", "nobody"}

\* what getPlayerState is to return for the entity e of the world
StateOf(e) ==
  IF e = Undefined \/ e.type # "person" THEN Null
  ELSE [currentLocation |-> e.location, health |-> e.health,
        energy |-> e.energy, inventory |-> e.inventory]

\* the engine's world is the caller's first world until a call succeeds and
\* the world of the result right after one that does; getEntity and
\* getPlayerState answer from the engine's world
IndexAgrees ==
  /\ last.op = "new" => heap[world] = orig.copy
  /\ (last.op = "executeAction" /\ last.error = NoError /\ last.result.success)
       => world = last.result.world
  /\ \A id \in ItemsIds :
       /\ GetEntity(MachineState, id) = EntityOf(heap[world], id)
       /\ GetPlayerState(MachineState, id) = StateOf(EntityOf(heap[world], id))

\* a call that does not succeed leaves the engine's world as it was
C26_IndexStep ==
  (last'.op = "executeAction" /\ ~(last'.error = NoError /\ last'.result.success))
    => (world' = world /\ heap'[world'] = heap[world])

\* C26: after any sequence of executeAction calls getEntity(id) returns the
\* entity with that id in the world the last successful executeAction
\* returned (the initial world if none succeeded) and undefined for an id
\* that world does not hold, and getPlayerState returns that world's
\* location, health, energy and inventory of the player.
C26_IndexAgrees == []IndexAgrees /\ [][C26_IndexStep]_vars

\* C26 witness: the potion was used up and a later call failed; getEntity
\* gives undefined for the potion and the player's state shows the gain
C26_Witness ==
  /\ last.op = "executeAction"
  /\ last.result.success = FALSE
  /\ Absent(heap[world], "potion")
  /\ GetEntity(MachineState, "potion") = Undefined
  /\ GetEntity(MachineState, "key") = EntityOf(heap[world], "key")
  /\ GetPlayerState(MachineState, "player").health = 100

\* getChangeDescriptions answers with the description of every change of
\* the transaction, in the order of the changes, and with the empty list
\* when there is no transaction
DescriptionsAgree ==
  LET given == GetChangeDescriptions(MachineState) IN
    IF ~transaction.exists THEN given = <<>>
    ELSE /\ Len(given) = Len(transaction.changes)
         /\ \A i \in 1 .. Len(given) : given[i] = transaction.changes[i].description

\* the changes of a successful executeAction are what getChangeDescriptions
\* gives for its transaction: the description of the energy cost first,
\* when the cost is positive, then those of the action as it records them
C27_ChangesStep ==
  (last'.op = "executeAction" /\ last'.error = NoError /\ last'.result.success) =>
    LET call == last'.input
        player == Caller(call)
        changes == last'.result.changes
        paid == IF call.action.energyCost > 0 THEN 1 ELSE 0
        own == RecordActionChanges(MachineState, player, call.action, call.turn).changes
    IN /\ Len(changes) = Len(transaction'.changes)
       /\ \A i \in 1 .. Len(changes) :
            changes[i] = transaction'.changes[i].description
       /\ Len(changes) = paid + Len(own)
       /\ paid = 1 =>
            /\ transaction'.changes[1].field = <<"energy">>
            /\ changes[1]
                 = "Energy decreased by " \o ToString(call.action.energyCost)
                     \o " (" \o call.action.type \o "). Now "
                     \o ToString(player.energy - call.action.energyCost) \o "/100."
       /\ \A i \in 1 .. Len(own) : changes[paid + i] = own[i].description

\* C27: getChangeDescriptions returns the description of every change
\* recorded in the current transaction, in recorded order, and the empty
\* list when no transaction was ever started; the changes of a successful
\* executeAction are that list for its transaction, the energy cost's
\* description first when the cost is positive, then the action's own in
\* the order they were recorded.
C27_ChangeDescriptions == []DescriptionsAgree /\ [][C27_ChangesStep]_vars

\* C27 witness: a TALK at cost 50 returned the energy description and then
\* the conversation's
C27_Witness ==
  /\ Succeeded("TALK")
  /\ last.result.changes
       = <<"Energy decreased by 50 (TALK). Now 50/100.",
           "Had a conversation with Bartender.">>
  /\ GetChangeDescriptions(MachineState) = last.result.changes

\* no transaction was started yet and the list is empty
C27_WitnessNone ==
  /\ ~transaction.exists
  /\ GetChangeDescriptions(MachineState) = <<>>

\* in the world w the inventory of the person p lists an item exactly when
\* the item's location is p, lists nothing twice, and lists Items only
InventoryAgrees(w, p) ==
  LET player == EntityOf(w, p)
      entities == w.entities
  IN /\ player # Undefined
     /\ \A i \in 1 .. Len(entities) :
          entities[i].type = "item" =>
            (Includes(player.inventory, entities[i].id) <=> entities[i].location = p)
     /\ \A i, j \in 1 .. Len(player.inventory) :
          player.inventory[i] = player.inventory[j] => i = j
     /\ \A i \in 1 .. Len(player.inventory) :
          /\ EntityOf(w, player.inventory[i]) # Undefined
          /\ EntityOf(w, player.inventory[i]).type = "item"

\* C33: inventory and item location stay consistent.  From a world where
\* the player's inventory lists an item exactly when the item's location is
\* the player, has no duplicates and lists Items only, every world that a
\* sequence of executeAction calls produces is such a world again; an item
\* that was used up is in no inventory.
C33_InventoryConsistent ==
  InventoryAgrees(orig.copy, "player") =>
    /\ InventoryAgrees(heap[world], "player")
    /\ (last.op = "executeAction" /\ last.result # Undefined) =>
         InventoryAgrees(heap[last.result.world], "player")

\* C33 witness: the player holds the key after the potion was taken and
\* used up; the inventory lists the key alone
C33_Witness ==
  /\ Succeeded("USE_ITEM")
  /\ EntityOf(heap[world], "potion") = Undefined
  /\ EntityOf(heap[world], "player").inventory = <<"key">>
  /\ EntityOf(heap[world], "key").location = "player"
  /\ InventoryAgrees(orig.copy, "player")

\* the player is a Person at a Place of the engine's world and REST at cost
\* 0 is among the actions generateValidActions gives
CanRecover ==
  LET player == EntityOf(heap[world], "player") IN
    /\ player # Undefined
    /\ player.type = "person"
    /\ EntityOf(heap[world], player.location) # Undefined
    /\ EntityOf(heap[world], player.location).type = "place"
    /\ Includes(GenerateValidActions(MachineState, "player"),
                PlainAction("REST", "Rest to recover energy", 0))

\* the last call was the player's REST at cost 0: it succeeded, the energy
\* is 70 or more, and EXPLORE and EXAMINE of the player's place are offered
Recovered ==
  (/\ last.op = "executeAction"
   /\ last.input.playerId = "player"
   /\ last.input.action = PlainAction("REST", "Rest to recover energy", 0))
  => LET player == EntityOf(heap[world], "player")
         offered == GenerateValidActions(MachineState, "player")
     IN /\ last.error = NoError
        /\ last.result.success
        /\ player.energy >= 70
        /\ \E i \in 1 .. Len(offered) :
             offered[i].type = "EXPLORE" /\ offered[i].energyCost = 4
        /\ \E i \in 1 .. Len(offered) :
             /\ offered[i].type = "EXAMINE"
             /\ offered[i].target = player.location
             /\ offered[i].energyCost = 1

\* C34: the player can always recover.  In every state executeAction
\* reaches from a world whose connections lead to Places, the player is a
\* Person at a Place, REST is offered, REST at cost 0 succeeds whatever the
\* energy, and after it the energy is at least 70, so that EXPLORE and
\* EXAMINE of the player's place are offered again.
C34_CanAlwaysRecover == CanRecover /\ Recovered

\* C34 witness: the player rested in the forest with nothing left and is
\* offered EXPLORE again
C34_Witness ==
  /\ Succeeded("REST")
  /\ last.input.action.energyCost = 0
  /\ last.moved[world] = 5
  /\ EntityOf(heap[5], "player").energy = 0
  /\ EntityOf(heap[world], "player").location = "forest"
  /\ EntityOf(heap[world], "player").energy = 70
  /\ Len(GenerateValidActions(MachineState, "player")) > 4

\* the changes of the transaction that write this field of the player
WritesOf(changes, playerId, f) ==
  {k \in 1 .. Len(changes) : changes[k].entityId = playerId /\ changes[k].field = <<f>>}

\* C35: every change executeAction records takes its values from the player
\* as the player was before the transaction, not from the changes recorded
\* before it; so when an action with a positive cost c also records an
\* energy change of its own (REST, or USE_ITEM of an item with an energy
\* effect), the committed energy is the action's own value, min(100, e + 70)
\* or e plus the effect held within 0 and 100, and c is not deducted.
C35_PreStateStep ==
  (/\ last'.op = "executeAction"
   /\ last'.error = NoError
   /\ last'.result.success) =>
    LET call == last'.input
        player == Caller(call)
        changes == transaction'.changes
        c == call.action.energyCost
        e == player.energy
        after == EntityOf(heap'[world'], call.playerId)
        item == MapGet(MachineState, call.action.target)
    IN /\ \A f \in {"energy", "health", "location", "inventory"} :
            \A k \in WritesOf(changes, call.playerId, f) :
              Raw(changes[k].oldValue) = player[f]
       /\ c > 0 =>
            /\ changes[1].field = <<"energy">>
            /\ Raw(changes[1].newValue) = (IF e - c < 0 THEN 0 ELSE e - c)
       /\ (c > 0 /\ call.action.type = "REST") =>
            /\ Len(changes) = 2
            /\ Raw(changes[2].newValue) = (IF e + 70 > 100 THEN 100 ELSE e + 70)
            /\ after.energy = (IF e + 70 > 100 THEN 100 ELSE e + 70)
       /\ (c > 0 /\ call.action.type = "USE_ITEM" /\ SetsEnergy(call)) =>
            LET own == e + item.effects.energy IN
              after.energy = (IF own < 0 THEN 0 ELSE IF own > 100 THEN 100 ELSE own)
C35_FromPreState == [][C35_PreStateStep]_vars

\* C35 witness: a REST at cost 50 by a player with energy e below 100 left
\* 100, the cost's change to e - 50 recorded first
C35_Witness ==
  /\ Succeeded("REST")
  /\ last.input.action.energyCost = 50
  /\ Len(transaction.changes) = 2
  /\ Raw(transaction.changes[2].oldValue) < 100
  /\ Raw(transaction.changes[1].oldValue) = Raw(transaction.changes[2].oldValue)
  /\ Raw(transaction.changes[1].newValue) = Raw(transaction.changes[2].oldValue) - 50
  /\ Raw(transaction.changes[2].newValue) = 100
  /\ EntityOf(heap[world], "player").energy = 100

\* an elixir was used at cost 50 and the energy is full
C35_WitnessItem ==
  /\ Succeeded("USE_ITEM")
  /\ last.input.action.energyCost = 50
  /\ EntityOf(heap[world], "player").energy = 100

-----------------------------------------------------------------------------
(* Claims about a round of generateValidActions and executeAction, checked *)
(* under SpecOffer.                                                        *)

\* the ids are all different, every connection leads to a Place, and every
\* inventory lists Items only
WellFormed(w) ==
  LET entities == w.entities
      ids(type) == {entities[i].id : i \in {j \in 1 .. Len(entities) :
                                              entities[j].type = type}}
  IN /\ \A i, j \in 1 .. Len(entities) : entities[i].id = entities[j].id => i = j
     /\ \A i \in 1 .. Len(entities) :
          /\ "connections" \in DOMAIN entities[i] =>
               DOMAIN entities[i].connections \subseteq ids("place")
          /\ "inventory" \in DOMAIN entities[i] =>
               \A k \in 1 .. Len(entities[i].inventory) :
                 entities[i].inventory[k] \in ids("item")

\* the step that passes an offered action to executeAction
TakesOffer == kept.stage = "asked" /\ kept'.stage = "taken"

\* C32: every action offered is executable.  On an engine whose world has
\* different ids, connections to Places and inventories of Items, each
\* action generateValidActions returned for the player, passed as it is to
\* executeAction with no call in between, succeeds.
C32_OfferStep ==
  (TakesOffer /\ WellFormed(heap[world])) =>
    /\ Includes(kept.actions, last'.input.action)
    /\ kept.actions = GenerateValidActions(MachineState, "player")
    /\ last'.error = NoError
    /\ last'.result.success
    /\ last'.result.world = world'
C32_OfferedIsExecutable == [][C32_OfferStep]_vars

\* C32 witness: an offered MOVE through the locked door was taken by the
\* player who holds the key
C32_Witness ==
  /\ kept.stage = "taken"
  /\ last.op = "executeAction"
  /\ last.input.action.type = "MOVE"
  /\ last.input.action.target = "locked_room"
  /\ last.result.success
  /\ Len(kept.actions) > 8

-----------------------------------------------------------------------------
(* Claims about the read methods of the ActionEngine, checked under        *)
(* SpecView.  A read method leaves the engine as it is, so the state in    *)
(* which last names a read is the state the read saw.                      *)

\* the ids a claim ranges over: those of the entities and some of none
AnyIds ==
  {"tavern", "forest", "locked_room", "player", "npc", "potion", "key",
   "void", "nowhere", "ghost_item", "nobody"}

\* the player generateValidActions was last called for
AskedPlayer == EntityOf(heap[world], last.input.playerId)

\* e is a Person whose location is the id of a Place
PersonAtPlace(e) ==
  /\ e # Undefined
  /\ e.type = "person"
  /\ EntityOf(heap[world], e.location) # Undefined
  /\ EntityOf(heap[world], e.location).type = "place"

\* the actions of one type in a list, in the order of the list
OfType(actions, type) == SelectSeq(actions, LAMBDA a : a.type = type)

Targets(actions) == {actions[i].target : i \in 1 .. Len(actions)}

\* the player may move to t as the claim words it
MayMove(player, t) ==
  LET place == EntityOf(heap[world], player.location) IN
    /\ player.energy > 10
    /\ t \in DOMAIN place.connections
    /\ EntityOf(heap[world], t) # Undefined
    /\ \/ place.connections[t].requires_item = ""
       \/ Includes(player.inventory, place.connections[t].requires_item)
    /\ place.connections[t].requires_health <= player.health

\* C16: generateValidActions offers a MOVE to t, at cost 5 and once, if and
\* only if the player's energy is above 10, t is a connection of the
\* player's Place that resolves to an entity, the connection's required
\* item, if any, is in the inventory and its required health, if any, is at
\* most the player's health.
C16_MoveOffered ==
  (last.op = "generateValidActions" /\ PersonAtPlace(AskedPlayer)) =>
    LET moves == OfType(last.result, "MOVE") IN
      /\ \A t \in AnyIds : t \in Targets(moves) <=> MayMove(AskedPlayer, t)
      /\ \A i \in 1 .. Len(moves) : moves[i].energyCost = 5
      /\ Cardinality(Targets(moves)) = Len(moves)

\* C16 witness: with energy 11 and no key, in the tavern, the player is
\* offered the forest and not the locked room
C16_Witness ==
  /\ last.op = "generateValidActions"
  /\ PersonAtPlace(AskedPlayer)
  /\ AskedPlayer.energy = 11
  /\ AskedPlayer.location = "tavern"
  /\ ~Includes(AskedPlayer.inventory, "key")
  /\ Targets(OfType(last.result, "MOVE")) = {"forest"}

\* with energy 10 and the key no MOVE is offered
C16_WitnessAtTen ==
  /\ last.op = "generateValidActions"
  /\ PersonAtPlace(AskedPlayer)
  /\ AskedPlayer.energy = 10
  /\ Includes(AskedPlayer.inventory, "key")
  /\ OfType(last.result, "MOVE") = <<>>

\* the place of an action's type in the fixed order of the list
Rank(type) ==
  CASE type = "REST" -> 1
    [] type = "WAIT" -> 2
    [] type = "EXPLORE" -> 3
    [] type = "MOVE" -> 4
    [] type = "TALK" -> 5
    [] type = "TAKE_ITEM" -> 6
    [] type = "DROP_ITEM" -> 7
    [] type = "USE_ITEM" -> 8
    [] type = "EXAMINE" -> 9
    [] OTHER -> 0

\* the ids of the entities of the engine's world that satisfy a test
IdsWhere(Test(_)) ==
  {heap[world].entities[i].id :
     i \in {j \in 1 .. Len(heap[world].entities) : Test(heap[world].entities[j])}}

\* the other persons at the player's location
OthersHere(player) ==
  IdsWhere(LAMBDA e : e.type = "person" /\ e.id # player.id
                      /\ e.location = player.location)

\* the items lying at the player's location
LyingHere(player) ==
  IdsWhere(LAMBDA e : e.type = "item" /\ e.location = player.location)

\* the entities the player's inventory lists
Held(player) == IdsWhere(LAMBDA e : Includes(player.inventory, e.id))

HeldUsable(player) ==
  IdsWhere(LAMBDA e : Includes(player.inventory, e.id)
                      /\ "usable" \in DOMAIN e /\ e.usable = TRUE)

HeldItems(player) ==
  IdsWhere(LAMBDA e : Includes(player.inventory, e.id) /\ e.type = "item")

\* the list holds, for the type, one action of that cost for each id
OnePer(actions, type, cost, ids) ==
  LET of == OfType(actions, type) IN
    /\ Len(of) = Cardinality(ids)
    /\ \A i \in 1 .. Len(of) :
         /\ "target" \in DOMAIN of[i]
         /\ of[i].target \in ids
         /\ of[i].energyCost = cost
    /\ Targets(of) = ids

\* the list holds the plain action of the type, at that cost, once or not
Plain(actions, type, cost, offered) ==
  LET of == OfType(actions, type) IN
    IF offered
    THEN Len(of) = 1 /\ of[1].energyCost = cost /\ "target" \notin DOMAIN of[1]
    ELSE of = <<>>

\* the place in the EXAMINE block: persons, then items, then the place
ExamineRank(player, id) ==
  IF id \in OthersHere(player) THEN 1
  ELSE IF id \in LyingHere(player) \cup HeldItems(player) THEN 2
  ELSE 3

\* C17: for a Person at a Place generateValidActions returns, in this
\* order: REST and WAIT (cost 0) at every energy; EXPLORE (cost 4) iff
\* energy >= 5; the MOVE entries; a TALK (cost 3) per other Person here iff
\* energy >= 5; a TAKE_ITEM (cost 0) per Item here; a DROP_ITEM (cost 0) per
\* inventory item; a USE_ITEM (cost 0) per usable inventory item; and, iff
\* energy >= 2, an EXAMINE (cost 1) per other Person here, per Item here or
\* held, and for the Place.
C17_ActionList ==
  (last.op = "generateValidActions" /\ PersonAtPlace(AskedPlayer)) =>
    LET player == AskedPlayer
        actions == last.result
        examine == OfType(actions, "EXAMINE")
    IN /\ \A i \in 1 .. Len(actions) : Rank(actions[i].type) # 0
       /\ \A i, j \in 1 .. Len(actions) :
            i < j => Rank(actions[i].type) <= Rank(actions[j].type)
       /\ Plain(actions, "REST", 0, TRUE)
       /\ Plain(actions, "WAIT", 0, TRUE)
       /\ Plain(actions, "EXPLORE", 4, player.energy >= 5)
       /\ OnePer(actions, "TALK", 3,
                 IF player.energy >= 5 THEN OthersHere(player) ELSE {})
       /\ OnePer(actions, "TAKE_ITEM", 0, LyingHere(player))
       /\ OnePer(actions, "DROP_ITEM", 0, Held(player))
       /\ OnePer(actions, "USE_ITEM", 0, HeldUsable(player))
       /\ IF player.energy >= 2
          THEN /\ Len(examine)
                    = Cardinality(OthersHere(player))
                      + Cardinality(LyingHere(player) \cup HeldItems(player)) + 1
               /\ Targets(examine)
                    = OthersHere(player) \cup LyingHere(player)
                      \cup HeldItems(player) \cup {player.location}
               /\ \A i \in 1 .. Len(examine) : examine[i].energyCost = 1
               /\ \A i, j \in 1 .. Len(examine) :
                    i < j => ExamineRank(player, examine[i].target)
                               <= ExamineRank(player, examine[j].target)
          ELSE examine = <<>>

\* C17 witness: with energy 5 in the tavern, holding the potion and the
\* key, the player is offered eleven actions, the last the EXAMINE of the
\* tavern
C17_Witness ==
  /\ last.op = "generateValidActions"
  /\ PersonAtPlace(AskedPlayer)
  /\ AskedPlayer.energy = 5
  /\ AskedPlayer.location = "tavern"
  /\ AskedPlayer.inventory = <<"potion", "key">>
  /\ Len(last.result) = 11
  /\ last.result[3].type = "EXPLORE"
  /\ last.result[4].type = "TALK"
  /\ last.result[7].type = "USE_ITEM"
  /\ last.result[11] = TargetAction("EXAMINE", "tavern", "Examine The Tavern", 1)

\* C18: generateValidActions is read-only and deterministic: a call leaves
\* the engine's world, and with it what getPlayerState and getEntity give
\* for every id, as they were, and it returns the list the caller was
\* given by any earlier call for the same player since the last successful
\* executeAction, whatever reads and failed executeAction calls came
\* between.
C18_ReadStep ==
  (last'.op = "generateValidActions") =>
    /\ world' = world
    /\ heap'[world'] = heap[world]
    /\ \A id \in AnyIds :
         /\ GetPlayerState(EngineOf(heap', world', entityMap'), id)
              = GetPlayerState(EngineOf(heap, world, entityMap), id)
         /\ GetEntity(EngineOf(heap', world', entityMap'), id)
              = GetEntity(EngineOf(heap, world, entityMap), id)
    /\ (last'.input.playerId = "player" /\ kept.seen) =>
         last'.result = kept.actions
C18_ReadOnlyDeterministic == [][C18_ReadStep]_vars

\* C18 witness: the player's list was returned, an executeAction failed,
\* and the list was returned again
C18_Witness ==
  /\ last.op = "generateValidActions"
  /\ last.input.playerId = "player"
  /\ kept.seen
  /\ kept.stage = "again"
  /\ Len(kept.actions) > 2

\* the id names no Person of the engine's world
NoPerson(id) ==
  \/ EntityOf(heap[world], id) = Undefined
  \/ EntityOf(heap[world], id).type # "person"

\* C19: for a playerId that resolves to no Person (an absent id, the id of
\* a Place or of an Item) generateValidActions returns the empty list,
\* getPlayerState returns null, and executeAction returns the failure
\* 'Invalid player' without a call to the manager, the transaction and
\* the world staying as they were; generateValidActions also returns the
\* empty list for a Person whose location resolves to no Place.
C19_InvalidPlayerStep ==
  /\ (last'.op = "generateValidActions" /\ NoPerson(last'.input.playerId))
       => last'.result = <<>>
  /\ (last'.op = "getPlayerState" /\ NoPerson(last'.input.playerId))
       => last'.result = Null
  /\ (last'.op = "executeAction" /\ NoPerson(last'.input.playerId))
       => /\ last'.error = NoError
          /\ last'.result.success = FALSE
          /\ ResultError(last'.result) = "Invalid player"
          /\ last'.result.changes = <<>>
          /\ tmCalls' = <<>>
          /\ transaction' = transaction
          /\ heap'[world'] = heap[world]
  /\ (/\ last'.op = "generateValidActions"
      /\ ~NoPerson(last'.input.playerId)
      /\ ~PersonAtPlace(EntityOf(heap[world], last'.input.playerId)))
       => last'.result = <<>>
C19_InvalidPlayer == [][C19_InvalidPlayerStep]_vars

\* C19 witness: executeAction was called with the id of the potion, after
\* an earlier call had left a transaction behind
C19_Witness ==
  /\ last.op = "executeAction"
  /\ last.input.playerId = "potion"
  /\ last.result.error = "Invalid player"
  /\ tmCalls = <<>>
  /\ transaction.exists

\* generateValidActions gave the empty list to a Person whose location is
\* the id of an item
C19_WitnessNoPlace ==
  /\ last.op = "generateValidActions"
  /\ last.input.playerId = "player"
  /\ AskedPlayer.location = "potion"
  /\ last.result = <<>>

----------------------------------------------------------------------------
(* Claims about the ActionEngine, checked under Spec.                      *)

\* what a caller sees of the engine through its three read methods
ViewIds ==
  {"player", "npc", "tavern", "forest", "locked_room", "potion", "key",
   "ghost_item", "nobody"}
EngineView(h, w, map) ==
  LET s == [heap |-> h, world |-> w, entityMap |-> map] IN
    [playerState |-> [id \in ViewIds |-> GetPlayerState(s, id)],
     entity |-> [id \in ViewIds |-> GetEntity(s, id)],
     validActions |-> [id \in ViewIds |-> GenerateValidActions(s, id)]]

\* C1: over any sequence of executeAction calls, successful or failed, the
\* World given to the constructor stays equal to the copy taken when it was
\* given, and no call changes a World object that existed before the call
\* (the engine's own world, which earlier calls returned, among them): each
\* is the same after the call, wherever the collector moved it.
C1_FrameStep ==
  last'.op = "executeAction" =>
    \A r \in Refs :
      (heap[r] # NoObj /\ last'.moved[r] # 0) => heap'[last'.moved[r]] = heap[r]
C1_NeverMutates ==
  /\ [](heap[orig.ref] = orig.copy)
  /\ [][C1_FrameStep]_vars

\* C1 witness: after a successful call the engine has a new world, and the
\* world it had before, still held by the caller, differs from it
C1_Witness ==
  /\ last.op = "executeAction"
  /\ last.result.success
  /\ last.result.world = world
  /\ heap[5] # NoObj
  /\ heap[5] # heap[world]
  /\ heap[world] # orig.copy

\* the call fails: the id is no person, validation rejects the action, or
\* recording its changes throws
CallFails(call) ==
  LET player == MapGet(MachineState, call.playerId) IN
    \/ player = Undefined
    \/ player.type # "person"
    \/ ValidateAction(MachineState, call.action, player) # ""
    \/ RecordActionChanges(MachineState, player, call.action, call.turn).error # NoError

\* C2: a failed executeAction call returns a result with success = false,
\* no changes and an error message; the world of the result is deep-equal
\* to the engine's world before the call; and getPlayerState, getEntity and
\* generateValidActions answer after the call as they did before it.
C2_FailedStep ==
  (last'.op = "executeAction" /\ CallFails(last'.input)) =>
    /\ last'.error = NoError
    /\ last'.result.success = FALSE
    /\ last'.result.changes = <<>>
    /\ "error" \in DOMAIN last'.result
    /\ last'.result.error # ""
    /\ last'.result.world # 0
    /\ heap'[last'.result.world] = heap[world]
    /\ heap'[world'] = heap[world]
    /\ EngineView(heap', world', entityMap') = EngineView(heap, world, entityMap)
C2_FailureLeavesEngine == [][C2_FailedStep]_vars

\* C2 witness: recording the use of an item that is no entity threw after
\* the energy cost had been recorded, and the call returned a failure
C2_Witness ==
  /\ last.op = "executeAction"
  /\ last.input.action.energyCost > 0
  /\ last.result.success = FALSE
  /\ last.result.error = "Invalid item: \"ghost_item\""
  /\ last.result.world # world
  /\ heap[world] # orig.copy

\* the call is a MOVE by a person over a connection of the person's place
\* that requires an item the person does not hold
MoveLacksItem(call) ==
  LET player == Caller(call)
      place == IF player = Undefined THEN Undefined
               ELSE MapGet(MachineState, Get(player, "location"))
  IN /\ call.action.type = "MOVE"
     /\ player # Undefined
     /\ player.type = "person"
     /\ place # Undefined
     /\ "connections" \in DOMAIN place
     /\ call.action.target \in DOMAIN place.connections
     /\ place.connections[call.action.target].requires_item # ""
     /\ ~Includes(player.inventory,
                  place.connections[call.action.target].requires_item)

\* C13 (the claim as stated): a MOVE over a connection whose required item
\* the player does not hold fails with the 'not connected' error and
\* changes nothing: the engine's world, with the player's location and
\* energy, is as before.
C13_LockedMoveStep ==
  (last'.op = "executeAction" /\ MoveLacksItem(last'.input)) =>
    /\ last'.result.success = FALSE
    /\ last'.result.error
         = "Cannot move to " \o last'.input.action.target \o ": not connected."
    /\ heap'[world'] = heap[world]
C13_LockedMoveFails == [][C13_LockedMoveStep]_vars

\* the manager calls of the last executeAction that returned normally
OkCalls(ops) == {i \in 1 .. Len(tmCalls) : tmCalls[i].op \in ops /\ tmCalls[i].ok}

\* C3: executeAction never throws; when it opens a transaction it ends it
\* exactly once before it returns, by commit when the call succeeds and by
\* rollback when it fails, with no manager call refused; so no transaction
\* is in flight between calls and no call fails with 'existing transaction
\* not completed'.
C3_TerminatedOnce ==
  /\ ~InFlight(transaction)
  /\ last.op = "executeAction" =>
       /\ last.error = NoError
       /\ \A i \in 1 .. Len(tmCalls) : tmCalls[i].ok
       /\ Cardinality(OkCalls({"startTransaction"})) <= 1
       /\ Cardinality(OkCalls({"commit", "rollback"}))
            = Cardinality(OkCalls({"startTransaction"}))
       /\ OkCalls({"startTransaction"}) # {} =>
            /\ tmCalls[1].op = "startTransaction"
            /\ tmCalls[Len(tmCalls)].op
                 = IF last.result.success THEN "commit" ELSE "rollback"
            /\ Terminal(transaction)
            /\ transaction.committed = last.result.success

\* C3 witness: a later call was rejected by validation and its transaction,
\* not the first of the engine, was rolled back
C3_Witness ==
  /\ last.op = "executeAction"
  /\ tmCalls = <<[op |-> "startTransaction", ok |-> TRUE],
                 [op |-> "rollback", ok |-> TRUE]>>
  /\ last.result.error = "Not enough energy. Need 100, have 0."
  /\ transaction.rolledBack
  /\ transaction.changes = <<>>

\* the call was rejected with msg: a failure with that error and no change,
\* no change was recorded, and the world of the result and of the engine
\* equal the engine's world before the call
Rejected(msg) ==
  /\ last'.result.success = FALSE
  /\ ResultError(last'.result) = msg
  /\ last'.result.changes = <<>>
  /\ \A i \in 1 .. Len(tmCalls') : tmCalls'[i].op # "recordChange"
  /\ heap'[last'.result.world] = heap[world]
  /\ heap'[world'] = heap[world]

\* C15: for a person with energy for the cost, executeAction rejects
\* before any change is recorded a TAKE_ITEM whose target is not an Item at
\* the player's location, a DROP_ITEM or USE_ITEM whose target is not in
\* the player's inventory, a TALK whose target is not a Person or is not at
\* the player's location, and an EXAMINE whose target does not exist; the
\* result is a failure with the action's own error and an unchanged world.
C15_RejectStep ==
  (/\ last'.op = "executeAction"
   /\ Caller(last'.input) # Undefined
   /\ Caller(last'.input).type = "person"
   /\ Caller(last'.input).energy >= last'.input.action.energyCost
   /\ "target" \in DOMAIN last'.input.action) =>
    LET player == Caller(last'.input)
        type == last'.input.action.type
        id == last'.input.action.target
        target == EntityOf(heap[world], id)
    IN /\ (/\ type = "TAKE_ITEM"
           /\ \/ target = Undefined
              \/ target.type # "item"
              \/ target.location # player.location)
            => Rejected("Cannot take item: not available.")
       /\ (type = "DROP_ITEM" /\ ~Includes(player.inventory, id))
            => Rejected("Cannot drop item: not in inventory.")
       /\ (type = "USE_ITEM" /\ ~Includes(player.inventory, id))
            => Rejected("Cannot use item: not in inventory.")
       /\ (type = "TALK" /\ (target = Undefined \/ target.type # "person"))
            => Rejected("Cannot talk to: invalid target.")
       /\ (/\ type = "TALK"
           /\ target # Undefined
           /\ target.type = "person"
           /\ target.location # player.location)
            => Rejected("Cannot talk to: not in same location.")
       /\ (type = "EXAMINE" /\ target = Undefined)
            => Rejected("Cannot examine: invalid target.")
----------------------------------------------------------------------------
(* Claims about the TransactionManager, checked under SpecTM.  A step is   *)
(* the call last' names; unprimed variables are the state before it.       *)

\* no World object in the heap is changed by the step (a cell may be freed)
NoWorldMutated ==
  \A r \in Refs : heap[r] # NoObj => heap'[r] = heap[r] \/ heap'[r] = NoObj

\* C4: startTransaction succeeds exactly when there is no transaction or the
\* current one is committed or rolled back, and then installs a fresh
\* transaction (no changes, both flags false, a new id) whose snapshot holds
\* a copy of the given world at the given turn; otherwise it throws and the
\* existing transaction, its snapshot included, is unchanged.
C4_StartStep ==
  last'.op = "startTransaction" =>
    IF ~transaction.exists \/ transaction.committed \/ transaction.rolledBack
    THEN /\ last'.error = NoError
         /\ transaction'.exists
         /\ transaction'.changes = <<>>
         /\ ~transaction'.committed /\ ~transaction'.rolledBack
         /\ transaction.exists => transaction'.id # transaction.id
         /\ transaction'.preSnapshot.turn = last'.input.turn
         /\ transaction'.preSnapshot.label = "pre_transaction"
         /\ transaction'.preSnapshot.world \notin {0, cw}
         /\ heap'[transaction'.preSnapshot.world] = heap[cw]
    ELSE /\ last'.error = "Cannot start transaction: existing transaction not completed"
         /\ transaction' = transaction
         /\ heap'[transaction.preSnapshot.world] = heap[transaction.preSnapshot.world]
C4_StartTransaction == [][C4_StartStep]_vars

\* C4 witness: a second startTransaction was refused while changes were pending
C4_Witness ==
  /\ last.op = "startTransaction"
  /\ last.error # NoError
  /\ InFlight(transaction)
  /\ Len(transaction.changes) = 2

\* C5: the two flags are never both true, and once a transaction is
\* committed or rolled back no call changes its flags or its change list.
C5_TerminalStep ==
  (Terminal(transaction) /\ transaction'.exists /\ transaction'.id = transaction.id)
    => /\ transaction'.committed = transaction.committed
       /\ transaction'.rolledBack = transaction.rolledBack
       /\ transaction'.changes = transaction.changes
C5_TerminalIsFinal ==
  /\ [](transaction.exists => ~(transaction.committed /\ transaction.rolledBack))
  /\ [][C5_TerminalStep]_vars

\* C5 witness: a commit was attempted on a rolled-back transaction that
\* holds changes
C5_Witness ==
  /\ last.op = "commit"
  /\ last.error # NoError
  /\ transaction.exists /\ transaction.rolledBack
  /\ Len(transaction.changes) > 0

\* C6 (the claim as stated): rollback on a transaction that is already
\* rolled back throws and returns no world.
C6_SecondRollbackStep ==
  (last'.op = "rollback" /\ transaction.exists /\ transaction.rolledBack)
    => last'.error # NoError /\ last'.ret = 0
C6_SecondRollbackFails == [][C6_SecondRollbackStep]_vars

\* C7: commit throws when there is no transaction and when the current one
\* is committed or rolled back; rollback throws when there is no transaction
\* and when the current one is committed; then no world is returned and the
\* transaction is unchanged.
C7_RejectStep ==
  /\ (last'.op = "commit" /\ ~transaction.exists)
       => last'.error = "No transaction to commit"
  /\ (last'.op = "commit" /\ Terminal(transaction))
       => last'.error = "Transaction already completed"
  /\ (last'.op = "rollback" /\ ~transaction.exists)
       => last'.error = "No transaction to rollback"
  /\ (last'.op = "rollback" /\ transaction.exists /\ transaction.committed)
       => last'.error = "Cannot rollback committed transaction"
  /\ (last'.op \in {"commit", "rollback"} /\ last'.error # NoError)
       => last'.ret = 0 /\ transaction' = transaction
C7_OutOfProtocolRejected == [][C7_RejectStep]_vars

\* C7 witness: rollback was refused on a committed transaction
C7_Witness ==
  /\ last.op = "rollback"
  /\ last.error = "Cannot rollback committed transaction"
  /\ transaction.committed

\* C8: recordChange throws 'No active transaction' and records nothing when
\* there is no transaction in flight; otherwise it adds exactly one change,
\* the one it was given, at the end of the list, and changes no World.
C8_RecordStep ==
  last'.op = "recordChange" =>
    IF InFlight(transaction)
    THEN /\ last'.error = NoError
         /\ Len(transaction'.changes) = Len(transaction.changes) + 1
         /\ SubSeq(transaction'.changes, 1, Len(transaction.changes)) = transaction.changes
         /\ \E i \in 1 .. Len(ChangeInputs) :
              transaction'.changes[Len(transaction'.changes)]
                = Put(ChangeInputs[i], "id", <<transaction.id, Len(transaction.changes) + 1>>)
         /\ [transaction' EXCEPT !.changes = <<>>] = [transaction EXCEPT !.changes = <<>>]
         /\ NoWorldMutated
         /\ heap'[cw] = heap[cw]
         /\ heap'[transaction.preSnapshot.world] = heap[transaction.preSnapshot.world]
    ELSE /\ last'.error = "No active transaction"
         /\ transaction' = transaction
         /\ NoWorldMutated
C8_RecordChange == [][C8_RecordStep]_vars

\* C8 witness: a third change was recorded after two others
C8_Witness ==
  /\ last.op = "recordChange"
  /\ last.error = NoError
  /\ Len(transaction.changes) = 3
  /\ transaction.changes[1].description # transaction.changes[3].description

\* C9: commit leaves its argument as it was, whether it returns or throws,
\* and the world it returns is another object.
C9_CommitStep ==
  last'.op = "commit" =>
    /\ heap'[cw] = heap[cw]
    /\ NoWorldMutated
    /\ last'.error = NoError => last'.ret \notin {0, cw}
C9_CommitKeepsArgument ==
  /\ [](heap[orig.ref] = orig.copy)
  /\ [][C9_CommitStep]_vars

\* C9 witness: a commit of a field write, a removal and an addition returned
HasField(changes, field) == \E i \in 1 .. Len(changes) : changes[i].field = field
C9_Witness ==
  /\ last.op = "commit"
  /\ last.error = NoError
  /\ HasField(transaction.changes, <<"energy">>)
  /\ HasField(transaction.changes, RemoveEntityField)
  /\ HasField(transaction.changes, NewEntityField)
  /\ heap[last.ret] # heap[cw]

\* the entities of commit's argument after the first k changes of the
\* transaction in flight
EntitiesAfter(k) ==
  ApplyChanges(heap, cw, SubSeq(transaction.changes, 1, k)).heap[cw].entities
HasId(entities, id) == \E i \in 1 .. Len(entities) : entities[i].id = id
RECURSIVE WithoutId(_, _)
WithoutId(entities, id) ==
  IF entities = <<>> THEN <<>>
  ELSE IF Head(entities).id = id THEN WithoutId(Tail(entities), id)
       ELSE <<Head(entities)>> \o WithoutId(Tail(entities), id)

\* C28: on commit, a change with field __remove_entity__ deletes exactly the
\* entity whose id is its entityId, and does nothing (no error) when there
\* is none; a change with field __new_entity__ and a newValue appends that
\* record at the end of the entities; every other entity stays as it was.
C28_CommitStep ==
  (last'.op = "commit" /\ InFlight(transaction)) =>
    LET changes == transaction.changes
        n == Len(changes)
    IN /\ (\A k \in 1 .. n : changes[k].field \in {RemoveEntityField, NewEntityField})
            => last'.error = NoError
       /\ last'.error = NoError => heap'[last'.ret].entities = EntitiesAfter(n)
       /\ \A k \in 1 .. n :
            LET before == EntitiesAfter(k - 1)
                after == EntitiesAfter(k)
            IN /\ changes[k].field = RemoveEntityField =>
                    /\ after = WithoutId(before, changes[k].entityId)
                    /\ ~HasId(before, changes[k].entityId) => after = before
                    /\ HasId(before, changes[k].entityId) => Len(after) = Len(before) - 1
               /\ (changes[k].field = NewEntityField /\ Truthy(changes[k].newValue)) =>
                    /\ Len(after) = Len(before) + 1
                    /\ after[Len(after)] = Raw(changes[k].newValue)
                    /\ SubSeq(after, 1, Len(before)) = before
C28_RemoveAndNew == [][C28_CommitStep]_vars

\* C28 witness: a commit returned after the potion was removed twice and
\* the sword added: no potion, the sword last, the others as they were
C28_Witness ==
  /\ last.op = "commit"
  /\ last.error = NoError
  /\ Len(transaction.changes) = 3
  /\ transaction.changes[1].field = RemoveEntityField
  /\ transaction.changes[2].field = RemoveEntityField
  /\ transaction.changes[3].field = NewEntityField
  /\ heap[last.ret].entities = WithoutId(heap[cw].entities, "potion") \o <<Sword>>

NoTwoAlike(entities) ==
  \A i, j \in 1 .. Len(entities) : entities[i].id = entities[j].id => i = j

\* C29 (the claim as stated): entity ids stay unique: when the ids of the
\* entities of commit's argument are all different, so are those of the
\* world commit returns, whatever changes were recorded, additions included.
C29_IdsStayUnique ==
  (last.op = "commit" /\ last.error = NoError /\ NoTwoAlike(heap[cw].entities))
    => NoTwoAlike(heap[last.ret].entities)

\* C10: the world commit returns is its argument with the changes applied in
\* recorded order.  For changes that write top-level fields, remove entities
\* and add entities: the entities not removed keep their order, each field
\* holds the newValue of the last change that wrote it (the argument's value
\* when none did), and the added entities follow in the order recorded.
IsWrite(change) == change.field \notin {RemoveEntityField, NewEntityField}
WritesTo(changes, id, f) ==
  {i \in 1 .. Len(changes) :
     IsWrite(changes[i]) /\ changes[i].entityId = id /\ changes[i].field = <<f>>}
SetMax(S) == CHOOSE x \in S : \A y \in S : y <= x
IsRemoved(changes, id) ==
  \E i \in 1 .. Len(changes) : changes[i].field = RemoveEntityField /\ changes[i].entityId = id
RECURSIVE KeptEntities(_, _)
KeptEntities(entities, changes) ==
  IF entities = <<>> THEN <<>>
  ELSE IF IsRemoved(changes, Head(entities).id)
       THEN KeptEntities(Tail(entities), changes)
       ELSE <<Head(entities)>> \o KeptEntities(Tail(entities), changes)
RECURSIVE AddedEntities(_)
AddedEntities(changes) ==
  IF changes = <<>> THEN <<>>
  ELSE IF Head(changes).field = NewEntityField
       THEN <<Raw(Head(changes).newValue)>> \o AddedEntities(Tail(changes))
       ELSE AddedEntities(Tail(changes))
WrittenFields(changes, id) ==
  {changes[i].field[1] : i \in {j \in 1 .. Len(changes) :
                                  IsWrite(changes[j]) /\ changes[j].entityId = id}}
C10_CommitStep ==
  (last'.op = "commit" /\ last'.error = NoError
     /\ \A i \in 1 .. Len(transaction.changes) : Len(transaction.changes[i].field) = 1)
  => LET changes == transaction.changes
         stay == KeptEntities(heap[cw].entities, changes)
         added == AddedEntities(changes)
         result == heap'[last'.ret].entities
     IN /\ Len(result) = Len(stay) + Len(added)
        /\ \A k \in 1 .. Len(stay) :
             /\ DOMAIN result[k] = (DOMAIN stay[k]) \cup WrittenFields(changes, stay[k].id)
             /\ \A f \in DOMAIN result[k] :
                  result[k][f] =
                    IF WritesTo(changes, stay[k].id, f) = {} THEN stay[k][f]
                    ELSE Raw(changes[SetMax(WritesTo(changes, stay[k].id, f))].newValue)
        /\ \A j \in 1 .. Len(added) : result[Len(stay) + j] = added[j]
C10_CommitInOrder == [][C10_CommitStep]_vars

\* C10 witness: a commit returned after energy was written twice, 0 last
C10_Witness ==
  /\ last.op = "commit"
  /\ last.error = NoError
  /\ Len(transaction.changes) = 3
  /\ transaction.changes[1].field = <<"energy">> /\ transaction.changes[1].newValue = Num(70)
  /\ transaction.changes[2].field = <<"location">>
  /\ transaction.changes[3].field = <<"energy">> /\ transaction.changes[3].newValue = Num(0)

----------------------------------------------------------------------------
(* Claims about commits that fail, checked under SpecTMF.                  *)

\* the descent of applyChange finds nothing at a segment before the last
RECURSIVE SegmentMissing(_, _)
SegmentMissing(target, parts) ==
  /\ Len(parts) > 1
  /\ \/ parts[1] \notin DOMAIN target
     \/ SegmentMissing(target[parts[1]], Tail(parts))

\* change k of the transaction in flight writes to an entity that the
\* entities after the changes before it do not hold, or below a field that
\* entity does not have
NoSuchEntity(k) ==
  /\ IsWrite(transaction.changes[k])
  /\ ~HasId(EntitiesAfter(k - 1), transaction.changes[k].entityId)
NoSuchPath(k) ==
  /\ IsWrite(transaction.changes[k])
  /\ HasId(EntitiesAfter(k - 1), transaction.changes[k].entityId)
  /\ SegmentMissing(EntityOf([entities |-> EntitiesAfter(k - 1)],
                             transaction.changes[k].entityId),
                    transaction.changes[k].field)
RECURSIVE FirstFailing(_)
FirstFailing(k) ==
  IF k > Len(transaction.changes) THEN 0
  ELSE IF NoSuchEntity(k) \/ NoSuchPath(k) THEN k
  ELSE FirstFailing(k + 1)

C30_CommitStep ==
  (last'.op = "commit" /\ InFlight(transaction)) =>
    LET k == FirstFailing(1) IN
      IF k = 0 THEN last'.error = NoError
      ELSE /\ last'.error
                = IF NoSuchEntity(k)
                  THEN "Entity not found: \"" \o transaction.changes[k].entityId \o "\""
                  ELSE "Invalid field path: \""
                         \o JoinPath(transaction.changes[k].field) \o "\""
           /\ last'.ret = 0
           /\ heap'[cw] = heap[cw]
           /\ NoWorldMutated
           /\ transaction' = transaction
           /\ InFlight(transaction')

C30_RollbackStep ==
  (last.op = "commit" /\ last.error # NoError /\ InFlight(transaction)
     /\ last'.op = "rollback") =>
    /\ last'.error = NoError
    /\ last'.ret # 0
    /\ heap'[last'.ret] = heap[transaction.preSnapshot.world]
    /\ heap'[last'.ret] = kept
    /\ transaction'.rolledBack /\ ~transaction'.committed

\* C30: a failing commit is atomic.  When a change of the transaction in
\* flight writes to an entity that is not there, or below a field the
\* entity does not have, commit throws an error naming the entity or the
\* path, returns no world, leaves its argument and every other world as
\* they were, and leaves the transaction neither committed nor rolled back;
\* a rollback that follows succeeds and returns the world as it was when
\* the transaction started.
C30_FailingCommitAtomic == [][C30_CommitStep /\ C30_RollbackStep]_vars

\* C30 witness: a commit threw at its second change, a write to an entity
\* the world does not hold, the first having been applied to the clone; the
\* argument still has the player's energy and the transaction is in flight
C30_Witness ==
  /\ last.op = "commit"
  /\ last.error = "Entity not found: \"ghost\""
  /\ last.ret = 0
  /\ Len(transaction.changes) >= 2
  /\ transaction.changes[1].field = <<"energy">>
  /\ transaction.changes[2].entityId = "ghost"
  /\ InFlight(transaction)
  /\ heap[cw] = kept

\* a commit threw on a path whose first segment the player does not have
C30_WitnessPath ==
  /\ last.op = "commit"
  /\ last.error = "Invalid field path: \"stats.mana\""
  /\ InFlight(transaction)

\* a commit threw on a write to the potion that an earlier change removed
C30_WitnessRemoved ==
  /\ last.op = "commit"
  /\ last.error = "Entity not found: \"potion\""
  /\ InFlight(transaction)
  /\ HasId(heap[cw].entities, "potion")

-----------------------------------------------------------------------------
(* Claims about the GameService, checked under SpecService.                *)

\* a performAction call of client c is in flight
Performing(c) == running[c].pc # "idle" /\ running[c].op = "performAction"

\* C36: in performAction the discovery is merged into the world, and the
\* narrator is invoked, only when executeAction returned success: for a call
\* whose executeAction failed, the answer of the discovery generator leaves
\* the call's world as it is, the narrator does not get to answer, and the
\* game state the call holds for the session keeps the world it loaded.
C36_FailedCallStep(c) ==
  (Performing(c) /\ ~running[c].success) =>
    /\ running'[c].pc # "idle" =>
         /\ running'[c].updatedWorld = running[c].updatedWorld
         /\ running'[c].narration = ""
         /\ running'[c].gameState.world = running[c].gameState.world
    /\ running'[c].pc = "idle" =>
         session'.currentGameState.world = session.currentGameState.world
C36_EffectsOnlyAfterSuccess == [][\A c \in Clients : C36_FailedCallStep(c)]_vars

\* C37: performAction calls on one session lose no update: whenever the
\* performAction calls made on the session have all returned, the stored
\* turn has gone up by one for each of them and the stored world has the
\* energy of the player lowered by what every one of them cost, also when
\* the calls loaded the session before either saved.
Quiescent ==
  /\ session.exists
  /\ session.currentGameState # Null
  /\ \A c \in Clients : ~Performing(c)
C37_NoLostUpdate ==
  Quiescent =>
    /\ session.currentTurn = 1 + kept.completed
    /\ session.currentGameState.currentTurn = 1 + kept.completed
    /\ EnergyIn(session.currentGameState.world, session.currentGameState.playerId)
         = 100 - kept.spent

\* C39: world generation in initializeGame is a bounded retry.  The world
\* generator is asked at most 3 times; at the first answer that passes
\* validateWorld the loop stops and that world is saved to the session;
\* an invalid world at the third attempt ends initializeGame with "Failed
\* to generate a valid world after multiple attempts", no world at the third
\* attempt with "Unable to generate world"; any other answer asks again.
Generating(c) == running[c].pc = "generate"
Passes(generatedWorld) ==
  IF generatedWorld = Null THEN FALSE ELSE ValidateWorld(generatedWorld)
C39_GenerateStep(c) ==
  (Generating(c) /\ running'[c] # running[c]) =>
    LET attempts == running[c].attempts
        threw == running'[c] = Idle
        generatedWorld == IF threw THEN last'.input.generatedWorld
                          ELSE running'[c].generatedWorld
    IN /\ attempts \in 1 .. 3
       /\ \E i \in 1 .. Len(GeneratedWorlds) : generatedWorld = GeneratedWorlds[i]
       /\ IF Passes(generatedWorld)
          THEN /\ running'[c].pc = "scene"
               /\ session'.generatedWorld = generatedWorld
          ELSE IF attempts < 3
          THEN /\ running'[c].pc = "generate"
               /\ running'[c].attempts = attempts + 1
               /\ session' = session
          ELSE /\ threw
               /\ session' = session
               /\ last'.op = "initializeGame" /\ last'.client = c
               /\ last'.error =
                    IF generatedWorld = Null THEN "Unable to generate world"
                    ELSE "Failed to generate a valid world after multiple attempts"
C39_BoundedRetry ==
  /\ [][\A c \in Clients : C39_GenerateStep(c)]_vars
  /\ [](\A c \in Clients : Generating(c) => running[c].attempts \in 1 .. 3)
  /\ [](session.exists => Passes(session.generatedWorld)
                            \/ session.generatedWorld = Null)
\* the third attempt gave an invalid world, or gave none
C39_Witness ==
  /\ last.op = "initializeGame"
  /\ last.input.attempts = 3
  /\ last.input.generatedWorld = GeneratedWorlds[4]
  /\ last.error = "Failed to generate a valid world after multiple attempts"
  /\ session.generatedWorld = Null
C39_WitnessNone ==
  /\ last.op = "initializeGame"
  /\ last.input.attempts = 3
  /\ last.input.generatedWorld = Null
  /\ last.error = "Unable to generate world"
\* the third attempt gave the first valid world, and it is saved
C39_WitnessThird ==
  /\ \E c \in Clients : running[c].pc = "scene" /\ running[c].attempts = 3
  /\ session.generatedWorld = GameWorld

\* C40: performAction reports game over exactly when the health of the
\* player in the world it stored is 0: then gameOver is true, the reason is
\* "You have died. Your adventure ends here." and no action is offered;
\* otherwise gameOver is false and the actions offered are the selector's
\* choice among generateValidActions of that world.
PerformActionReturned == last.op = "performAction" /\ last.error = NoError
StoredWorld == session.currentGameState.world
StoredHealth ==
  StoredWorld.entities[FindIndex(StoredWorld.entities,
                                 session.currentGameState.playerId)].health
C40_GameOverAtZeroHealth ==
  PerformActionReturned =>
    /\ last.result.gameOver = (StoredHealth = 0)
    /\ last.result.gameState.health = StoredHealth
    /\ IF StoredHealth = 0
       THEN /\ last.result.gameOverReason = "You have died. Your adventure ends here."
            /\ last.result.availableActions = <<>>
       ELSE /\ last.result.gameOverReason = ""
            /\ last.result.availableActions =
                 SelectInterestingActions(
                   GenerateValidActions(EngineFor(StoredWorld),
                                        session.currentGameState.playerId))
            /\ last.result.availableActions # <<>>
\* the poison took the player's health to 0, and after another action the
\* game goes on
C40_Witness ==
  /\ PerformActionReturned
  /\ last.input.action.type = "USE_ITEM"
  /\ last.result.success
  /\ StoredHealth = 0
  /\ last.result.gameOver
C40_WitnessAlive ==
  /\ PerformActionReturned
  /\ last.input.action.type = "USE_ITEM"
  /\ last.result.success
  /\ StoredHealth = 40
  /\ ~last.result.gameOver
  /\ Len(last.result.availableActions) > 1

-----------------------------------------------------------------------------
(* Claims about the GameService over a long game, checked under            *)
(* SpecHistory.                                                            *)

\* C38: the stored message history is bounded and keeps its head.  The
\* history a performAction call stores ends with one user entry "Player
\* action: ..." followed by one assistant entry with the narration; it is
\* the history the call loaded with the two entries behind it while that
\* has at most 20 entries, and otherwise its first entry with the last 10
\* behind it.  After selectCharacter and any number of performAction calls
\* the stored history has at most 20 entries and starts with the system
\* prompt.
StoredHistory == session.currentGameState.messageHistory
C38_NarratedStep(c) ==
  (running[c].pc = "narrate" /\ running'[c].pc = "save") =>
    LET old == running[c].gameState.messageHistory
        new == running'[c].gameState.messageHistory
        both == old \o <<Message("user", "Player action: "
                                           \o running[c].action.description),
                         Message("assistant", running'[c].narration)>>
    IN /\ SubSeq(new, Len(new) - 1, Len(new)) = SubSeq(both, Len(both) - 1, Len(both))
       /\ new[1] = old[1]
       /\ IF Len(both) <= 20 THEN new = both
          ELSE /\ Len(new) = 11
               /\ SubSeq(new, 2, 11) = SubSeq(both, Len(both) - 9, Len(both))
C38_SavedStep(c) ==
  (running[c].pc = "save" /\ running'[c] = Idle) =>
    session'.currentGameState.messageHistory = running[c].gameState.messageHistory
C38_HistoryBounded ==
  /\ [][\A c \in Clients : C38_NarratedStep(c) /\ C38_SavedStep(c)]_vars
  /\ []((session.exists /\ session.currentGameState # Null) =>
          /\ Len(StoredHistory) \in 1 .. 20
          /\ StoredHistory[1] = SystemPrompt(session.generatedWorld)
          /\ StoredHistory[1].role = "system")
\* the history was cut: the tenth call after a selectCharacter that found an
\* opening scene loaded 20 entries and stored 11, with both narrations in it
C38_Witness ==
  /\ session.exists /\ session.currentGameState # Null
  /\ kept.completed = 10
  /\ last.op = "performAction"
  /\ Len(StoredHistory) = 11
  /\ StoredHistory[2].role = "user"
  /\ StoredHistory[11] = Message("assistant", "Time passes.")
  /\ StoredHistory[9] = Message("assistant", "You performed an action.")
\* a history of 20 entries is stored as it is
C38_WitnessFull ==
  /\ session.exists /\ session.currentGameState # Null
  /\ Len(StoredHistory) = 20
  /\ StoredHistory[2] = Message("assistant", "Welcome to the test world!")

====
